---- MODULE Spec2Model ----
(***************************************************************************)
(* A model of the index analyzers of this repository.                      *)
(*                                                                         *)
(*  - src/eodhd_index_test.py: main() runs, for each index of INDEX_CONFIG,*)
(*    get_constituent_table -> enrich_constituent_data ->                  *)
(*    analyze_and_display_results, then saves the breakdowns.              *)
(*  - src/data_Fetching_codes/famous_indices.py: for each index,           *)
(*    get_tickers_from_wikipedia -> fetch_data_for_index.                  *)
(*                                                                         *)
(* Text that the code transforms (column names, class attributes, tickers) *)
(* is a sequence of one-character strings, so that joins, strips, parses   *)
(* and suffixes are computed character by character.  Text that the code   *)
(* only compares or copies (sectors, countries) is a plain string.         *)
(***************************************************************************)
EXTENDS Integers, Sequences, FiniteSets, TLC

VARIABLES
    entry,          \* what was started: "main" and "enrich" of
                    \* eodhd_index_test.py, or "famous_indices"
    pc,             \* position of the run
    k,              \* position of the loop over INDEX_CONFIG (1-based)
    soup,           \* the page fetched for the current index, or fetch_error
    scraped,        \* what _scrape_with_css_class did for the current index
    constituents_df,\* the frame get_constituent_table returned / enrich mutates
    entry_df,       \* the frame as it was when the enrichment loop started
    i,              \* position of the enrichment loop (1-based row)
    lookups,        \* the yfinance lookups made by the current enrichment
    sleeps,         \* number of time.sleep calls of the current enrichment
    enriched_df,    \* what enrich_constituent_data returned
    all_results,    \* main's all_results: sequence of [name, count, weight]
    files,          \* the CSV files written by main
    hist,           \* per attempted index: what the extractor reported
    tickers,        \* famous_indices: the tickers the scraper returned
    logged,         \* famous_indices: the error the scraper logged
    fetching,       \* famous_indices: the locals of fetch_data_for_index
    wiki_soup,      \* famous_indices: the page the scraper fetched
    runs,           \* famous_indices: per index, what the page held, what
                    \* the scraper returned and what the fetch did
    analysis_result,\* main's analysis_result: what
                    \* analyze_and_display_results returned
    strategy,       \* the 'strategy' the configuration gives the indices
    landmark,       \* whether the pages hold the landmark heading
    rule,           \* a normalization rule applied on its own: whose it is
    raw,            \* ... the raw value it is given
    country,        \* ... the country of the row, for a per-row rule
    outs,           \* ... what its successive applications returned
    country_currency_map, \* the rows of the table of that name
    currency_rates, \* the rows of the table of that name
    processed_codes,\* update_currency_data: the codes whose rate it stores
    rates_from_api, \* ... the codes the last API response holds a rate for
    updates,        \* ... the number of runs started so far
    ending,         \* ... how the last run ended
    display,        \* a report on its own: the index and country of the
                    \* display name, and which breakdown it is
    imported,       \* db_maker.py: what it made of the report's file name
    tickers_dict,   \* fetch_index_data: the names it is given, in order
    fetch_i,        \* ... the position of its loop (1-based)
    successful_dataframes, \* ... the names of the series it collected
    failed_indices, \* ... the names it recorded as failed
    fetch_sleeps,   \* ... the number of time.sleep calls
    saved           \* ... the files it wrote

eodhd_vars == <<soup, scraped, constituents_df, entry_df, i, lookups, sleeps,
                enriched_df, all_results, files>>
famous_vars == <<tickers, logged, fetching, wiki_soup, runs>>
config_vars == <<strategy, landmark>>
rule_vars == <<rule, raw, country, outs>>
db_vars == <<country_currency_map, currency_rates, processed_codes,
            rates_from_api, updates, ending>>
import_vars == <<display, imported>>
closing_vars == <<tickers_dict, fetch_i, successful_dataframes,
                 failed_indices, fetch_sleeps, saved>>
vars == <<entry, pc, k, hist, eodhd_vars, analysis_result, famous_vars,
          config_vars, rule_vars, db_vars, import_vars, closing_vars>>

-----------------------------------------------------------------------------
(* Text *)

sTicker == <<"T","i","c","k","e","r">>
sTickerSymbol == <<"T","i","c","k","e","r"," ","s","y","m","b","o","l">>
sCountry == <<"C","o","u","n","t","r","y">>
sIndustry == <<"I","n","d","u","s","t","r","y">>
sCompany == <<"C","o","m","p","a","n","y">>
sMainListing == <<"M","a","i","n"," ","l","i","s","t","i","n","g">>
sWikitable == <<"w","i","k","i","t","a","b","l","e">>
sSortable == <<"s","o","r","t","a","b","l","e">>
sWikitables == <<"w","i","k","i","t","a","b","l","e","s">>
sInfobox == <<"i","n","f","o","b","o","x">>
sAsiaName == <<"S","&","P"," ","A","s","i","a"," ","5","0">>
sLatinName == <<"S","&","P"," ","L","a","t","i","n"," ","A","m","e","r","i","c",
                "a"," ","4","0">>
sCountCsv == <<"_","c","o","u","n","t","_","b","r","e","a","k","d","o","w","n",
               ".","c","s","v">>
sWeightCsv == <<"_","w","e","i","g","h","t","_","b","r","e","a","k","d","o","w",
                "n",".","c","s","v">>

Letters == {"a","b","c","d","e","f","g","h","i","j","k","l","m","n","o","p",
            "q","r","s","t","u","v","w","x","y","z",
            "A","B","C","D","E","F","G","H","I","J","K","L","M","N","O","P",
            "Q","R","S","T","U","V","W","X","Y","Z"}
Digits == {"0","1","2","3","4","5","6","7","8","9"}
\* The characters the regex class \w matches.
WordChars == Letters \cup Digits \cup {"_"}
\* The characters str.strip() removes.
Whitespace == {" ", "\t", "\n", "\r"}

\* sep.join(parts)
RECURSIVE Join(_, _)
Join(parts, sep) ==
    IF parts = <<>> THEN <<>>
    ELSE IF Len(parts) = 1 THEN parts[1]
    ELSE parts[1] \o sep \o Join(Tail(parts), sep)

RECURSIVE LStrip(_)
LStrip(s) ==
    IF s # <<>> /\ s[1] \in Whitespace THEN LStrip(Tail(s)) ELSE s

RECURSIVE RStrip(_)
RStrip(s) ==
    IF s # <<>> /\ s[Len(s)] \in Whitespace
    THEN RStrip(SubSeq(s, 1, Len(s) - 1)) ELSE s

\* str.strip()
Strip(s) == RStrip(LStrip(s))

\* re.compile(r'\b' + word + r'\b').search(s): word occurs in s with a word
\* boundary on both sides (word starts and ends with a word character).
RegexWordSearch(word, s) ==
    \E p \in 1..(Len(s) - Len(word) + 1) :
        /\ SubSeq(s, p, p + Len(word) - 1) = word
        /\ (p = 1 \/ s[p - 1] \notin WordChars)
        /\ (p + Len(word) - 1 = Len(s) \/ s[p + Len(word)] \notin WordChars)

DigitChar(d) == CASE d = 0 -> "0" [] d = 1 -> "1" [] d = 2 -> "2" [] d = 3 -> "3"
                  [] d = 4 -> "4" [] d = 5 -> "5" [] d = 6 -> "6" [] d = 7 -> "7"
                  [] d = 8 -> "8" [] d = 9 -> "9"

\* str(n) for a non-negative integer n
RECURSIVE NatToStr(_)
NatToStr(n) ==
    IF n < 10 THEN <<DigitChar(n)>>
    ELSE NatToStr(n \div 10) \o <<DigitChar(n % 10)>>

\* str(n) for an integer n
IntToStr(n) == IF n < 0 THEN <<"-">> \o NatToStr(-n) ELSE NatToStr(n)

-----------------------------------------------------------------------------
(* Pages.  A page is the sequence, in document order, of its table         *)
(* elements; a table element is named by its number in TableCatalog.       *)
(* A cell of a ticker column is a string or an integer (pandas.read_html   *)
(* turns an all-numeric column into integers); the other cells are plain   *)
(* strings, NaN standing for an empty cell.                                *)

StrCell(s) == [t |-> "str", v |-> s]
IntCell(n) == [t |-> "int", v |-> n]
\* A whole number in a column pandas read as floats
FloatCell(n) == [t |-> "float", v |-> n]
NaN == "NaN"

\* A table element: cls, its class attribute as a sequence of tokens; parse,
\* whether pandas.read_html can parse it; multi, whether its header is
\* hierarchical; cols, one tuple of header levels per column; rows.
TableCatalog == <<
    \* 1: S&P Asia 50 constituents, without an Industry column
    [cls |-> <<sWikitable, sSortable>>, parse |-> TRUE, multi |-> FALSE,
     cols |-> <<<<sTicker>>, <<sCountry>>>>,
     rows |-> << <<StrCell(<<"A","B">>), "Hong Kong">>,
                 <<IntCell(5), "Japan">> >>],
    \* 2: a table with a two-level header
    [cls |-> <<sWikitable>>, parse |-> TRUE, multi |-> TRUE,
     cols |-> <<<<sTicker, sTicker>>, <<sCountry, sCountry>>>>,
     rows |-> << <<StrCell(<<"M","L">>), "Taiwan">> >>],
    \* 3: a table pandas cannot parse
    [cls |-> <<sWikitable>>, parse |-> FALSE, multi |-> FALSE,
     cols |-> <<>>, rows |-> <<>>],
    \* 4: a table with a ticker column whose class only resembles the class
    [cls |-> <<sInfobox, sWikitables>>, parse |-> TRUE, multi |-> FALSE,
     cols |-> <<<<sTicker>>, <<sCountry>>>>,
     rows |-> << <<StrCell(<<"Z","Z">>), "Taiwan">> >>],
    \* 5: a constituents table with a header and no rows
    [cls |-> <<sWikitable>>, parse |-> TRUE, multi |-> FALSE,
     cols |-> <<<<sTicker>>, <<sCountry>>, <<sIndustry>>>>,
     rows |-> <<>>],
    \* 6: constituents without a Country column
    [cls |-> <<sWikitable>>, parse |-> TRUE, multi |-> FALSE,
     cols |-> <<<<sTicker>>, <<sIndustry>>>>,
     rows |-> << <<StrCell(<<"A","B">>), "Tech">> >>],
    \* 7: S&P Latin America 40 constituents, one ticker listed twice
    [cls |-> <<sWikitable, sSortable>>, parse |-> TRUE, multi |-> FALSE,
     cols |-> <<<<sTickerSymbol>>, <<sCountry>>, <<sIndustry>>>>,
     rows |-> << <<StrCell(<<"V","A">>), "Brazil", "Mat">>,
                 <<StrCell(<<"V","A">>), "Brazil", NaN>> >>]
>>

\* The table of the end-to-end scenario: five rows, the third a duplicate of
\* the first, the fourth with an empty ticker cell
ScenarioTable ==
    [cls |-> <<sWikitable, sSortable>>, parse |-> TRUE, multi |-> FALSE,
     cols |-> <<<<sTicker>>, <<sCountry>>, <<sIndustry>>>>,
     rows |-> << <<StrCell(<<"A","B">>), "Hong Kong", "Tech">>,
                 <<StrCell(<<"C","D">>), "Hong Kong", "Tech">>,
                 <<StrCell(<<"A","B">>), "Hong Kong", "Tech">>,
                 <<[t |-> "nan", v |-> <<>>], "Hong Kong", "Fin">>,
                 <<StrCell(<<"E","F">>), "Japan", "Fin">> >>]

Table(id) == (TableCatalog \o <<ScenarioTable>>)[id]

\* The page that holds the scenario table and nothing else
ScenarioPage == <<Len(TableCatalog) + 1>>

\* The longest page considered
MaxTables == 3

RECURSIVE SeqsUpTo(_, _)
SeqsUpTo(S, n) ==
    IF n = 0 THEN {<<>>}
    ELSE LET shorter == SeqsUpTo(S, n - 1)
         IN shorter \cup {Append(q, x) : q \in shorter, x \in S}

Pages == SeqsUpTo(DOMAIN TableCatalog, MaxTables)

\* requests.get / raise_for_status raised
fetch_error == <<0>>

-----------------------------------------------------------------------------
(* src/eodhd_index_test.py *)

INDEX_KEYS == <<"spasia50", "splatin40">>

INDEX_CONFIG(index_key) ==
    CASE index_key = "spasia50" ->
            [name |-> sAsiaName, strategy |-> "css_class",
             args |-> [class_ |-> sWikitable, ticker_column |-> sTicker,
                       column_mapping |-> << <<"Sector", sIndustry>> >>,
                       custom_clean_fn |-> TRUE]]
      [] index_key = "splatin40" ->
            [name |-> sLatinName, strategy |-> "css_class",
             args |-> [class_ |-> sWikitable, ticker_column |-> sTickerSymbol,
                       column_mapping |-> << <<"Sector", sIndustry>> >>,
                       custom_clean_fn |-> TRUE]]

None == "None"

\* A frame is [none, columns, rows]: none says that the value is None and not
\* a DataFrame; rows are records over the columns.
NoneDf == [none |-> TRUE, columns |-> {}, rows |-> <<>>]
Frame(columns, rows) == [none |-> FALSE, columns |-> columns, rows |-> rows]
\* df.empty
Empty(df) == df.rows = <<>> \/ df.columns = {}

\* What the scraper prints when it returns None
ErrNoTables == "No tables with class containing class_ found"
ErrNoColumn == "Found tables with class, but none contained column"
ErrGeneral == "A general error occurred while scraping"

\* soup.find_all('table', {'class': re.compile(r'\b' + class_ + r'\b')}):
\* the positions, in document order, of the tables one of whose class tokens
\* the pattern finds.
find_all(page, class_) ==
    SelectSeq([p \in 1..Len(page) |-> p],
              LAMBDA p : \E j \in 1..Len(Table(page[p]).cls) :
                            RegexWordSearch(class_, Table(page[p]).cls[j]))

\* df.columns after lines 70-71: a hierarchical header is collapsed by
\* joining the levels of each column with '_' and stripping the result.
Columns(t) ==
    IF t.multi
    THEN [j \in 1..Len(t.cols) |-> Strip(Join(t.cols[j], <<"_">>))]
    ELSE [j \in 1..Len(t.cols) |-> t.cols[j][1]]

InSeq(x, q) == \E j \in 1..Len(q) : q[j] = x

\* The loop of lines 64-76 from candidate j on: the position in the page of
\* the first candidate that parses and has the ticker column, 0 if none.
RECURSIVE ScrapeLoop(_, _, _, _)
ScrapeLoop(page, tables, j, ticker_col) ==
    IF j > Len(tables) THEN 0
    ELSE LET t == Table(page[tables[j]])
         IN IF t.parse /\ InSeq(ticker_col, Columns(t))
            THEN tables[j]
            ELSE ScrapeLoop(page, tables, j + 1, ticker_col)

\* The scraper with the loop running to its end: the last candidate that has
\* the ticker column is returned.
RECURSIVE ScrapeLoopLast(_, _, _, _)
ScrapeLoopLast(page, tables, j, ticker_col) ==
    IF j = 0 THEN 0
    ELSE LET t == Table(page[tables[j]])
         IN IF t.parse /\ InSeq(ticker_col, Columns(t))
            THEN tables[j]
            ELSE ScrapeLoopLast(page, tables, j - 1, ticker_col)

scrape_returning_last(args, page) ==
    LET tables == find_all(page, args.class_)
    IN IF tables = <<>>
       THEN [called |-> TRUE, ret |-> 0, printed |-> ErrNoTables]
       ELSE LET found == ScrapeLoopLast(page, tables, Len(tables),
                                        args.ticker_column)
            IN IF found # 0
               THEN [called |-> TRUE, ret |-> found, printed |-> None]
               ELSE [called |-> TRUE, ret |-> 0, printed |-> ErrNoColumn]

\* The scraper without the early return of lines 60-62: an empty candidate
\* list falls through the loop to the message of line 78.
scrape_without_empty_check(args, page) ==
    LET tables == find_all(page, args.class_)
        found == ScrapeLoop(page, tables, 1, args.ticker_column)
    IN IF found # 0
       THEN [called |-> TRUE, ret |-> found, printed |-> None]
       ELSE [called |-> TRUE, ret |-> 0, printed |-> ErrNoColumn]

\* _scrape_with_css_class(args, soup): ret is the position in the page of the
\* table whose frame is returned (0 for None), printed what it printed.
scrape_with_css_class(args, page) ==
    LET tables == find_all(page, args.class_)
    IN IF tables = <<>>
       THEN [called |-> TRUE, ret |-> 0, printed |-> ErrNoTables]
       ELSE LET found == ScrapeLoop(page, tables, 1, args.ticker_column)
            IN IF found # 0
               THEN [called |-> TRUE, ret |-> found, printed |-> None]
               ELSE [called |-> TRUE, ret |-> 0, printed |-> ErrNoColumn]

\* _scrape_with_css_class was not called
NotScraped == [called |-> FALSE, ret |-> 0, printed |-> None]

\* str(cell)
Str(cell) ==
    CASE cell.t = "int" -> IntToStr(cell.v)
      [] cell.t = "float" -> IntToStr(cell.v) \o <<".", "0">>
      [] cell.t = "nan" -> <<"n", "a", "n">>
      [] OTHER -> cell.v

\* The position of column name in a frame's columns, 0 if absent
RECURSIVE ColPosFrom(_, _, _)
ColPosFrom(columns, name, j) ==
    IF j > Len(columns) THEN 0
    ELSE IF columns[j] = name THEN j
    ELSE ColPosFrom(columns, name, j + 1)

ColPos(columns, name) == ColPosFrom(columns, name, 1)

\* dict.get(key, default) with the suffix of the first market as the default
ExchangeSuffixDefaulted(index_key, place) ==
    CASE index_key = "stoxx50" ->
            (CASE place = "Xetra" -> <<".","D","E">>
               [] place = "Euronext Paris" -> <<".","P","A">>
               [] place = "Euronext Amsterdam" -> <<".","A","S">>
               [] place = "Borsa Italiana" -> <<".","M","I">>
               [] place = "Irish Stock Exchange" -> <<".","I","R">>
               [] place = "Helsinki Stock Exchange" -> <<".","H","E">>
               [] OTHER -> <<".","D","E">>)
      [] index_key = "spasia50" ->
            (CASE place = "Hong Kong" -> <<".","H","K">>
               [] place = "South Korea" -> <<".","K","S">>
               [] place = "Singapore" -> <<".","S","I">>
               [] place = "Taiwan" -> <<".","T","W">>
               [] OTHER -> <<".","H","K">>)
      [] index_key = "splatin40" ->
            (CASE place = "Brazil" -> <<".","S","A">>
               [] place = "Mexico" -> <<".","M","X">>
               [] place = "Chile" -> <<".","S","N">>
               [] place = "Peru" -> <<".","L","M">>
               [] place = "Colombia" -> <<".","C","N">>
               [] OTHER -> <<".","S","A">>)

\* dict.get(key, '') on the exchange_map of lines 109-126
ExchangeSuffix(index_key, place) ==
    CASE index_key = "stoxx50" ->
            (CASE place = "Xetra" -> <<".","D","E">>
               [] place = "Euronext Paris" -> <<".","P","A">>
               [] place = "Euronext Amsterdam" -> <<".","A","S">>
               [] place = "Borsa Italiana" -> <<".","M","I">>
               [] place = "Irish Stock Exchange" -> <<".","I","R">>
               [] place = "Helsinki Stock Exchange" -> <<".","H","E">>
               [] OTHER -> <<>>)
      [] index_key = "spasia50" ->
            (CASE place = "Hong Kong" -> <<".","H","K">>
               [] place = "South Korea" -> <<".","K","S">>
               [] place = "Singapore" -> <<".","S","I">>
               [] place = "Taiwan" -> <<".","T","W">>
               [] OTHER -> <<>>)
      [] index_key = "splatin40" ->
            (CASE place = "Brazil" -> <<".","S","A">>
               [] place = "Mexico" -> <<".","M","X">>
               [] place = "Chile" -> <<".","S","N">>
               [] place = "Peru" -> <<".","L","M">>
               [] place = "Colombia" -> <<".","C","N">>
               [] OTHER -> <<>>)

\* Lines 111-113, 117-119, 123-125: the lambda applied to each row, on the
\* row's ticker cell and the row's country or main listing
custom_clean(index_key, cell, place) ==
    Str(cell) \o ExchangeSuffix(index_key, place)

\* The column of the row that the custom clean function of index_key reads
PlaceColumn(index_key) ==
    IF index_key = "stoxx50" THEN sMainListing ELSE sCountry

HasCustomBranch(index_key) == index_key \in {"stoxx50", "spasia50", "splatin40"}

\* Lines 138-143 for one row with a missing wiki column left as an empty
\* cell instead of 'N/A'
RECURSIVE MapColumnsWithoutSentinel(_, _, _, _)
MapColumnsWithoutSentinel(rec, mapping, columns, raw_row) ==
    IF mapping = <<>> THEN rec
    ELSE LET standard_name == mapping[1][1]
             wiki_name == mapping[1][2]
             pos == ColPos(columns, wiki_name)
             value == IF pos # 0 THEN raw_row[pos] ELSE NaN
             \* assigning an existing column replaces it
             rest == [c \in (DOMAIN rec) \ {standard_name} |-> rec[c]]
         IN MapColumnsWithoutSentinel(rest @@ (standard_name :> value), Tail(mapping),
                       columns, raw_row)

\* Lines 138-143 for one row: the row of constituents_df with every standard
\* attribute of the mapping added, from the wiki column or as 'N/A'.
RECURSIVE MapColumns(_, _, _, _)
MapColumns(rec, mapping, columns, raw_row) ==
    IF mapping = <<>> THEN rec
    ELSE LET standard_name == mapping[1][1]
             wiki_name == mapping[1][2]
             pos == ColPos(columns, wiki_name)
             value == IF pos # 0 THEN raw_row[pos] ELSE "N/A"
             \* assigning an existing column replaces it
             rest == [c \in (DOMAIN rec) \ {standard_name} |-> rec[c]]
         IN MapColumns(rest @@ (standard_name :> value), Tail(mapping),
                       columns, raw_row)

RECURSIVE MappedNames(_)
MappedNames(mapping) ==
    IF mapping = <<>> THEN {}
    ELSE {mapping[1][1]} \cup MappedNames(Tail(mapping))

\* get_constituent_table(index_key) on the page the fetch returned:
\* ret is the frame returned, scrape what _scrape_with_css_class did,
\* printed the error printed (None when none).
get_constituent_table(index_key, page) ==
    LET args == INDEX_CONFIG(index_key).args
    IN IF page = fetch_error
       THEN [ret |-> NoneDf, scrape |-> NotScraped, printed |-> ErrGeneral]
       ELSE
       LET sc == scrape_with_css_class(args, page)
       IN IF sc.ret = 0
          THEN [ret |-> NoneDf, scrape |-> sc, printed |-> sc.printed]
          ELSE
          LET t == Table(page[sc.ret])
              columns == Columns(t)
              ticker_pos == ColPos(columns, args.ticker_column)
              place_pos == ColPos(columns, PlaceColumn(index_key))
              custom == args.custom_clean_fn /\ HasCustomBranch(index_key)
          IN IF \/ custom /\ place_pos = 0
                \/ ~args.custom_clean_fn
             \* row['Country'] or args['clean_series_fn'] raises KeyError,
             \* caught at line 148
             THEN [ret |-> NoneDf, scrape |-> sc, printed |-> ErrGeneral]
             ELSE
             LET ticker(row) ==
                     IF custom
                     THEN custom_clean(index_key, row[ticker_pos],
                                       row[place_pos])
                     ELSE row[ticker_pos]
                 rows == [r \in 1..Len(t.rows) |->
                             MapColumns("Ticker" :> ticker(t.rows[r]),
                                        args.column_mapping, columns,
                                        t.rows[r])]
             IN [ret |-> Frame({"Ticker"}
                                 \cup MappedNames(args.column_mapping), rows),
                 scrape |-> sc, printed |-> None]

-----------------------------------------------------------------------------
(* enrich_constituent_data *)

\* Lines 159-162: the standard columns are added when missing
EnsureColumns(df) ==
    LET withSector ==
            IF "Sector" \in df.columns THEN df.rows
            ELSE [r \in 1..Len(df.rows) |-> df.rows[r] @@ ("Sector" :> "N/A")]
        withCap ==
            IF "MarketCap" \in df.columns THEN withSector
            ELSE [r \in 1..Len(withSector) |->
                     withSector[r] @@ ("MarketCap" :> 0)]
    IN Frame(df.columns \cup {"Sector", "MarketCap"}, withCap)

\* Line 168 with "and" for "or"
should_fetch_both(row) == row.Sector = "N/A" /\ row.MarketCap = 0

\* Line 168
should_fetch(row) == row.Sector = "N/A" \/ row.MarketCap = 0

\* What ticker.info can hold.  A key of the dictionary is <<>> when it is
\* missing and <<value>> when it is present.
LookupSectors == {<<>>, <<"Fin">>}
LookupCaps == {<<>>, <<300>>, <<700>>}
Infos == [sector : LookupSectors, marketCap : LookupCaps]

\* info.get('sector', 'N/A')
InfoSector(info) == IF info.sector = <<>> THEN "N/A" ELSE info.sector[1]
\* info.get('marketCap', 0)
InfoMarketCap(info) == IF info.marketCap = <<>> THEN 0 ELSE info.marketCap[1]

\* Lines 178-183 without the test of line 179
FillRowAlways(row, info) ==
    [row EXCEPT !.Sector = InfoSector(info),
                !.MarketCap = InfoMarketCap(info)]

\* Lines 178-183 on one row of the frame
FillRow(row, info) ==
    [row EXCEPT !.Sector = IF @ = "N/A" THEN InfoSector(info) ELSE @,
                !.MarketCap = InfoMarketCap(info)]

\* Line 191 with ">=" for ">"
QualityGateNonNegative(df) ==
    Frame(df.columns, SelectSeq(df.rows, LAMBDA row : row.MarketCap >= 0))

\* Line 191: constituents_df[constituents_df['MarketCap'] > 0]
QualityGate(df) ==
    Frame(df.columns, SelectSeq(df.rows, LAMBDA row : row.MarketCap > 0))

-----------------------------------------------------------------------------
(* analyze_and_display_results *)

\* df['MarketCap'].sum()
RECURSIVE SumCaps(_)
SumCaps(rows) ==
    IF rows = <<>> THEN 0 ELSE rows[1].MarketCap + SumCaps(Tail(rows))

\* The group keys of value_counts() and groupby(): NaN is dropped
Sectors(df) == {df.rows[r].Sector : r \in 1..Len(df.rows)} \ {NaN}

CountOf(df, sector) ==
    Cardinality({r \in 1..Len(df.rows) : df.rows[r].Sector = sector})

CapOf(df, sector) ==
    SumCaps(SelectSeq(df.rows, LAMBDA row : row.Sector = sector))

\* The orders in which a descending sort by key can leave the elements of S
\* (the order of equal keys is left to the sort)
Descending(S, key) ==
    {q \in [1..Cardinality(S) -> S] :
        /\ \A a, b \in DOMAIN q : a # b => q[a] # q[b]
        /\ \A a, b \in DOMAIN q : a < b => key[q[a]] >= key[q[b]]}

\* Lines 203-205.  A percentage (x / y) * 100 is kept as the exact fraction
\* [num |-> 100 * x, den |-> y].
sector_counts(df, order) ==
    [columns |-> <<"Sector", "Count", "Percentage">>,
     rows |-> [j \in DOMAIN order |->
                  [Sector |-> order[j], Count |-> CountOf(df, order[j]),
                   Percentage |-> [num |-> 100 * CountOf(df, order[j]),
                                   den |-> Len(df.rows)]]]]

\* Lines 210-213
sector_weights(df, order) ==
    LET total_market_cap == SumCaps(df.rows)
    IN [columns |-> <<"Sector", "MarketCap", "Weight (%)">>,
        rows |-> [j \in DOMAIN order |->
                     [Sector |-> order[j], MarketCap |-> CapOf(df, order[j]),
                      Weight |-> [num |-> 100 * CapOf(df, order[j]),
                                  den |-> total_market_cap]]]]

\* Lines 194-225: None for an empty frame, else the two breakdowns.  A
\* percentage whose den is 0 is what pandas makes of a division by zero
\* (nan or inf): the division raises nothing.
analyze_and_display_results(df, corder, worder) ==
    IF Empty(df)
    THEN [none |-> TRUE, count_breakdown |-> <<>>, weight_breakdown |-> <<>>]
    ELSE [none |-> FALSE,
          count_breakdown |-> sector_counts(df, corder),
          weight_breakdown |-> sector_weights(df, worder)]

\* str.replace(old, new) for a one-character old
RECURSIVE Replace(_, _, _)
Replace(str, old, new) ==
    IF str = <<>> THEN <<>>
    ELSE (IF str[1] = old THEN new ELSE <<str[1]>>)
         \o Replace(Tail(str), old, new)

\* Line 261: four replace calls, each on the value the one before returned
clean_name(index_name) ==
    CHOOSE d \in {Replace(c, "/", <<"_">>) :
                 c \in {Replace(b, ")", <<>>) :
                 b \in {Replace(a, "(", <<>>) :
                 a \in {Replace(index_name, " ", <<"_">>)}}}} : TRUE

-----------------------------------------------------------------------------
(* src/data_Fetching_codes/famous_indices.py *)

sSymbol == <<"S","y","m","b","o","l">>
sEPIC == <<"E","P","I","C">>
sConstituents == <<"c","o","n","s","t","i","t","u","e","n","t","s">>
sWikitableSortable == sWikitable \o <<" ">> \o sSortable

FAMOUS_KEYS == <<"sp500", "ftse100", "nikkei225", "hangseng">>

FAMOUS_CONFIG(key) ==
    CASE key = "sp500" ->
            [name |-> "S&P 500",
             table_identifier |-> [attr |-> "id", value |-> sConstituents],
             ticker_column |-> sSymbol]
      [] key = "ftse100" ->
            [name |-> "FTSE 100",
             table_identifier |-> [attr |-> "id", value |-> sConstituents],
             ticker_column |-> sEPIC]
      [] key = "nikkei225" ->
            [name |-> "Nikkei 225",
             table_identifier |-> [attr |-> "class",
                                   value |-> sWikitableSortable],
             ticker_column |-> sSymbol]
      [] key = "hangseng" ->
            [name |-> "Hang Seng",
             table_identifier |-> [attr |-> "class",
                                   value |-> sWikitableSortable],
             ticker_column |-> sTicker]

\* The first position from p on at which sub occurs in str, 0 if nowhere
RECURSIVE FindFrom(_, _, _)
FindFrom(str, sub, p) ==
    IF p + Len(sub) - 1 > Len(str) THEN 0
    ELSE IF SubSeq(str, p, p + Len(sub) - 1) = sub THEN p
    ELSE FindFrom(str, sub, p + 1)

\* sub in str
Contains(str, sub) == FindFrom(str, sub, 1) # 0

\* str.split(sep)
RECURSIVE Split(_, _)
Split(str, sep) ==
    LET p == FindFrom(str, sep, 1)
    IN IF p = 0 THEN <<str>>
       ELSE <<SubSeq(str, 1, p - 1)>>
            \o Split(SubSeq(str, p + Len(sep), Len(str)), sep)

DigitVal(c) == CASE c = "0" -> 0 [] c = "1" -> 1 [] c = "2" -> 2 [] c = "3" -> 3
                 [] c = "4" -> 4 [] c = "5" -> 5 [] c = "6" -> 6 [] c = "7" -> 7
                 [] c = "8" -> 8 [] c = "9" -> 9

\* The value of a sequence of digits and underscores
RECURSIVE DigitsValue(_)
DigitsValue(ds) ==
    IF ds = <<>> THEN 0
    ELSE IF ds[Len(ds)] = "_" THEN DigitsValue(SubSeq(ds, 1, Len(ds) - 1))
    ELSE 10 * DigitsValue(SubSeq(ds, 1, Len(ds) - 1)) + DigitVal(ds[Len(ds)])

\* int(str): surrounding whitespace, one optional sign, then digits, single
\* underscores allowed between digits.  ok is FALSE where int() raises
\* ValueError.
ParseInt(str) ==
    LET t == Strip(str)
        signed == t # <<>> /\ t[1] \in {"+", "-"}
        body == IF signed THEN Tail(t) ELSE t
        wellFormed ==
            /\ body # <<>>
            /\ \A j \in 1..Len(body) : body[j] \in Digits \cup {"_"}
            /\ body[1] \in Digits
            /\ body[Len(body)] \in Digits
            /\ \A j \in 1..(Len(body) - 1) : ~(body[j] = "_" /\ body[j + 1] = "_")
    IN IF ~wellFormed THEN [ok |-> FALSE, v |-> 0]
       ELSE [ok |-> TRUE,
             v |-> IF signed /\ t[1] = "-" THEN -DigitsValue(body)
                   ELSE DigitsValue(body)]

\* str padded on the left with zeros to at least width characters
RECURSIVE ZeroPad(_, _)
ZeroPad(str, width) ==
    IF Len(str) >= width THEN str ELSE ZeroPad(<<"0">> \o str, width)

\* f"{n:03d}"
Format03d(n) ==
    IF n < 0 THEN <<"-">> \o ZeroPad(NatToStr(-n), 2)
    ELSE ZeroPad(NatToStr(n), 3)

\* f"{n:04d}": the sign counts in the width
Format04d(n) ==
    IF n < 0 THEN <<"-">> \o ZeroPad(NatToStr(-n), 3)
    ELSE ZeroPad(NatToStr(n), 4)

\* config['clean_fn'](s): ok is FALSE where the lambda raises
clean_fn(key, str) ==
    CASE key = "sp500" ->
            [ok |-> TRUE, v |-> Replace(str, ".", <<"-">>)]
      [] key = "ftse100" ->
            [ok |-> TRUE,
             v |-> IF ~Contains(str, <<".">>) THEN str \o <<".", "L">> ELSE str]
      [] key = "nikkei225" ->
            [ok |-> TRUE,
             v |-> IF Contains(str, <<":", " ">>)
                   THEN Split(str, <<":", " ">>)[2] \o <<".", "T">>
                   ELSE str \o <<".", "T">>]
      [] key = "hangseng" ->
            LET n == ParseInt(str)
            IN IF n.ok THEN [ok |-> TRUE, v |-> Format04d(n.v) \o <<".", "H", "K">>]
               ELSE [ok |-> FALSE, v |-> <<>>]

\* The tables of the Wikipedia pages of famous_indices.py; id is the table's
\* id attribute.  One table holds the ticker columns of all four indices.
WikiCatalog == <<
    \* 1: constituents, every value one its index's rule accepts
    [id |-> sConstituents, cls |-> <<sWikitable, sSortable>>,
     parse |-> TRUE, multi |-> FALSE,
     cols |-> <<<<sSymbol>>, <<sEPIC>>, <<sTicker>>>>,
     rows |-> << <<StrCell(<<"B",".","B">>), StrCell(<<"A","Z">>), IntCell(5)>>,
                 <<StrCell(<<"T",":"," ","7">>), StrCell(<<"B",".","A">>),
                   IntCell(700)>> >>],
    \* 2: constituents, the second of three values not a number
    [id |-> sConstituents, cls |-> <<sWikitable, sSortable>>,
     parse |-> TRUE, multi |-> FALSE,
     cols |-> <<<<sSymbol>>, <<sEPIC>>, <<sTicker>>>>,
     rows |-> << <<StrCell(<<"A">>), StrCell(<<"A">>), StrCell(<<"5">>)>>,
                 <<StrCell(<<"B">>), StrCell(<<"B">>), StrCell(<<"H","K">>)>>,
                 <<StrCell(<<"A">>), StrCell(<<"A">>), StrCell(<<"5">>)>> >>],
    \* 3: constituents with a header and no rows
    [id |-> sConstituents, cls |-> <<sWikitable, sSortable>>,
     parse |-> TRUE, multi |-> FALSE,
     cols |-> <<<<sSymbol>>, <<sEPIC>>, <<sTicker>>>>,
     rows |-> <<>>],
    \* 4: the identified table has no ticker column
    [id |-> sConstituents, cls |-> <<sWikitable, sSortable>>,
     parse |-> TRUE, multi |-> FALSE,
     cols |-> <<<<sCompany>>>>,
     rows |-> << <<StrCell(<<"A">>)>> >>],
    \* 5: the identified table does not parse
    [id |-> sConstituents, cls |-> <<sWikitable, sSortable>>,
     parse |-> FALSE, multi |-> FALSE, cols |-> <<>>, rows |-> <<>>],
    \* 6: another table: no id, the class tokens the other way round
    [id |-> <<>>, cls |-> <<sSortable, sWikitable>>,
     parse |-> TRUE, multi |-> FALSE,
     cols |-> <<<<sSymbol>>, <<sEPIC>>, <<sTicker>>>>,
     rows |-> << <<StrCell(<<"Z">>), StrCell(<<"Z">>), IntCell(1)>> >>]
>>

WikiTable(id) == WikiCatalog[id]

\* The longest Wikipedia page of famous_indices.py considered
MaxWikiTables == 2

WikiPages == SeqsUpTo(DOMAIN WikiCatalog, MaxWikiTables)

\* bs4 matches an attribute value against a string: the id must equal it;
\* of a class attribute, one token or the whole attribute must equal it.
Identified(t, ident) ==
    IF ident.attr = "id" THEN t.id = ident.value
    ELSE \/ \E j \in 1..Len(t.cls) : t.cls[j] = ident.value
         \/ Join(t.cls, <<" ">>) = ident.value

\* soup.find('table', config['table_identifier']): the position of the first
\* table identified, 0 for None
RECURSIVE FindTable(_, _, _)
FindTable(page, ident, p) ==
    IF p > Len(page) THEN 0
    ELSE IF Identified(WikiTable(page[p]), ident) THEN p
    ELSE FindTable(page, ident, p + 1)

LogNoTable == "Could not find the specified table"
LogNoColumn == "Ticker column not found in the table"
LogError == "An error occurred while scraping"
LogRussell == "Failed to scrape Russell 2000 tickers"

\* Line 82 from row r on: the cleaned tickers, ok FALSE when clean_fn raised
RECURSIVE CleanAll(_, _, _, _)
CleanAll(key, rows, pos, r) ==
    IF r > Len(rows) THEN [ok |-> TRUE, v |-> <<>>]
    ELSE LET c == clean_fn(key, Str(rows[r][pos]))
             rest == CleanAll(key, rows, pos, r + 1)
         IN IF c.ok /\ rest.ok THEN [ok |-> TRUE, v |-> <<c.v>> \o rest.v]
            ELSE [ok |-> FALSE, v |-> <<>>]

\* get_tickers_from_wikipedia(config) on the page the fetch returned
get_tickers_from_wikipedia(key, page) ==
    LET config == FAMOUS_CONFIG(key)
    IN IF page = fetch_error THEN [ret |-> <<>>, logged |-> LogError]
       ELSE
       LET found == FindTable(page, config.table_identifier, 1)
       IN IF found = 0 THEN [ret |-> <<>>, logged |-> LogNoTable]
          ELSE
          LET t == WikiTable(page[found])
          IN IF ~t.parse THEN [ret |-> <<>>, logged |-> LogError]
             ELSE
             LET pos == ColPos(Columns(t), config.ticker_column)
             IN IF pos = 0 THEN [ret |-> <<>>, logged |-> LogNoColumn]
                ELSE
                LET cleaned == CleanAll(key, t.rows, pos, 1)
                IN IF cleaned.ok THEN [ret |-> cleaned.v, logged |-> None]
                   ELSE [ret |-> <<>>, logged |-> LogError]

\* The page of get_russell_2000_tickers: whether it has a table, and the td
\* texts of each tr of the first table
RussellPages == {
    [fetched |-> FALSE, table |-> FALSE, rows |-> <<>>],
    [fetched |-> TRUE, table |-> FALSE, rows |-> <<>>],
    [fetched |-> TRUE, table |-> TRUE, rows |-> << <<>> >>],
    [fetched |-> TRUE, table |-> TRUE,
     rows |-> << <<>>, <<<<" ", "A", "A", " ">>, <<"x">>>>, <<>>,
                 <<<<"B">>>> >>] }

\* Lines 101-106 from row r on
RECURSIVE RussellRows(_, _)
RussellRows(rows, r) ==
    IF r > Len(rows) THEN <<>>
    ELSE (IF rows[r] = <<>> THEN <<>> ELSE <<Strip(rows[r][1])>>)
         \o RussellRows(rows, r + 1)

\* get_russell_2000_tickers() on the page the fetch returned
get_russell_2000_tickers(page) ==
    IF ~page.fetched THEN [ret |-> <<>>, logged |-> LogRussell]
    ELSE IF ~page.table THEN [ret |-> <<>>, logged |-> None]
    ELSE [ret |-> RussellRows(page.rows, 2), logged |-> None]

\* The locals of fetch_data_for_index: at, the position of its loop; calls
\* and sleeps, the yfinance lookups and time.sleep calls made; the lengths of
\* all_info_data, all_historical_data, all_financials_data; saved, the files
\* written.
NotFetching == [at |-> 0, calls |-> 0, sleeps |-> 0, info |-> 0, historical |-> 0,
                financials |-> 0, saved |-> {}]

-----------------------------------------------------------------------------
(* What a page holds, said without the scraper *)

\* The table's class attribute has class_ as a whole word
HasClass(t, class_) ==
    \E j \in 1..Len(t.cls) : RegexWordSearch(class_, t.cls[j])

\* The table parses and one of its column names is ticker_col
HasColumn(t, ticker_col) ==
    t.parse /\ \E j \in 1..Len(t.cols) : Columns(t)[j] = ticker_col

-----------------------------------------------------------------------------
(* The run *)

\* The longest frame handed to enrich_constituent_data directly
MaxRows == 2

InputTicker(r) == <<"T">> \o NatToStr(r)

\* The frames a direct call of enrich_constituent_data is given: with all
\* three columns, without MarketCap, and with the Ticker column alone.
InputFrames ==
    UNION {
        {Frame({"Ticker", "Sector", "MarketCap"},
               [r \in 1..n |-> [Ticker |-> InputTicker(r),
                                Sector |-> sec[r], MarketCap |-> cap[r]]]) :
            sec \in [1..n -> {"N/A", "Tech"}], cap \in [1..n -> {0, 500}]}
        \cup
        {Frame({"Ticker", "Sector"},
               [r \in 1..n |-> [Ticker |-> InputTicker(r), Sector |-> sec[r]]]) :
            sec \in [1..n -> {"N/A", "Tech"}]}
        \cup
        {Frame({"Ticker"}, [r \in 1..n |-> [Ticker |-> InputTicker(r)]])}
        : n \in 1..MaxRows}

\* analyze_and_display_results returned None, or was not called
NoResult == [none |-> TRUE, count_breakdown |-> <<>>, weight_breakdown |-> <<>>]

InitBatch ==
    /\ k = 1
    /\ soup = <<>>
    /\ scraped = NotScraped
    /\ entry_df = NoneDf
    /\ i = 0
    /\ lookups = <<>>
    /\ sleeps = 0
    /\ all_results = <<>>
    /\ files = <<>>
    /\ hist = <<>>
    /\ tickers = <<>>
    /\ logged = None
    /\ fetching = NotFetching
    /\ wiki_soup = <<>>
    /\ runs = <<>>
    /\ analysis_result = NoResult

\* update_currency_data has not run: the two tables are empty
NoUpdate ==
    /\ country_currency_map = {}
    /\ currency_rates = {}
    /\ processed_codes = {}
    /\ rates_from_api = {}
    /\ updates = 0
    /\ ending = None

\* No report file is imported on its own
NoReport ==
    /\ display = None
    /\ imported = None

\* fetch_index_data is not running
NoFetch ==
    /\ tickers_dict = <<>>
    /\ fetch_i = 0
    /\ successful_dataframes = <<>>
    /\ failed_indices = <<>>
    /\ fetch_sleeps = 0
    /\ saved = {}

InitCommon == InitBatch /\ NoUpdate /\ NoReport /\ NoFetch

\* No rule is applied on its own
NoRule ==
    /\ rule = None
    /\ raw = <<>>
    /\ country = None
    /\ outs = <<>>

\* The configuration as it is written (lines 27 and 39); the pages hold no
\* landmark heading
AsConfigured ==
    /\ strategy = "css_class"
    /\ landmark = FALSE

\* python eodhd_index_test.py
InitMain ==
    /\ AsConfigured
    /\ NoRule
    /\ enriched_df = NoneDf
    /\ entry = "main"
    /\ pc = "get_table"
    /\ constituents_df = NoneDf
    /\ InitCommon

\* enrich_constituent_data(constituents_df, index_name) called on its own
InitEnrich ==
    /\ AsConfigured
    /\ NoRule
    /\ enriched_df = NoneDf
    /\ entry = "enrich"
    /\ pc = "enrich"
    /\ constituents_df \in InputFrames
    /\ InitCommon

\* The frames a direct call of analyze_and_display_results is given
AnalyzeFrames ==
    UNION {
        {Frame({"Ticker", "Sector", "MarketCap"},
               [r \in 1..n |-> [Ticker |-> InputTicker(r),
                                Sector |-> sec[r], MarketCap |-> cap[r]]]) :
            sec \in [1..n -> {"Tech", "Fin", NaN}],
            cap \in [1..n -> {0, 300, 700}]}
        : n \in 0..MaxRows}

\* analyze_and_display_results(df, index_name) called on its own
InitAnalyze ==
    /\ AsConfigured
    /\ NoRule
    /\ entry = "analyze"
    /\ pc = "analyze"
    /\ constituents_df = NoneDf
    /\ enriched_df \in AnalyzeFrames
    /\ InitCommon

Init == InitMain \/ InitEnrich

\* The position main's loop reaches after the body at index k
AfterIndex == IF k < Len(INDEX_KEYS) THEN "get_table" ELSE "save"

\* What the page fetched for index_key is like: whether the fetch succeeded,
\* whether one of its tables carries the class, and whether one of those
\* holds the ticker column.
PageFacts(index_key, page) ==
    LET args == INDEX_CONFIG(index_key).args
        classed == IF page = fetch_error THEN {}
                   ELSE {p \in 1..Len(page) : HasClass(Table(page[p]), args.class_)}
        holding == {p \in classed : HasColumn(Table(page[p]), args.ticker_column)}
    IN [fetched |-> page # fetch_error,
        class_tables |-> classed # {},
        with_column |-> holding # {}]

\* Lines 245-246: get_constituent_table on the page the fetch returns
GetConstituentTable ==
    /\ pc = "get_table"
    /\ \E page \in Pages \cup {fetch_error} :
        LET r == get_constituent_table(INDEX_KEYS[k], page)
            go == ~r.ret.none /\ ~Empty(r.ret)
        IN /\ soup' = page
           /\ scraped' = r.scrape
           /\ constituents_df' = r.ret
           /\ hist' = Append(hist, [index_key |-> INDEX_KEYS[k],
                                    page |-> PageFacts(INDEX_KEYS[k], page),
                                    none |-> r.ret.none,
                                    rows |-> Len(r.ret.rows),
                                    selector |-> r.scrape.printed,
                                    printed |-> r.printed])
           /\ pc' = IF go THEN "enrich" ELSE "next_index"
    /\ UNCHANGED <<famous_vars, config_vars, import_vars, closing_vars,
                   db_vars, rule_vars, analysis_result, entry, k, entry_df,
                   i, lookups, sleeps, enriched_df, all_results, files>>

\* Lines 245-246 in the end-to-end scenario: the page of the first index
\* holds the scenario table, the page of the other cannot be fetched
GetScenarioTable ==
    /\ pc = "get_table"
    /\ \E page \in {IF k = 1 THEN ScenarioPage ELSE fetch_error} :
        LET r == get_constituent_table(INDEX_KEYS[k], page)
            go == ~r.ret.none /\ ~Empty(r.ret)
        IN /\ soup' = page
           /\ scraped' = r.scrape
           /\ constituents_df' = r.ret
           /\ hist' = Append(hist, [index_key |-> INDEX_KEYS[k],
                                    page |-> PageFacts(INDEX_KEYS[k], page),
                                    none |-> r.ret.none,
                                    rows |-> Len(r.ret.rows),
                                    selector |-> r.scrape.printed,
                                    printed |-> r.printed])
           /\ pc' = IF go THEN "enrich" ELSE "next_index"
    /\ UNCHANGED <<famous_vars, config_vars, import_vars, closing_vars,
                   db_vars, rule_vars, analysis_result, entry, k, entry_df,
                   i, lookups, sleeps, enriched_df, all_results, files>>

\* Lines 156-164: the standard columns, then the loop starts
EnrichBegin ==
    /\ pc = "enrich"
    /\ constituents_df' = EnsureColumns(constituents_df)
    /\ entry_df' = EnsureColumns(constituents_df)
    /\ i' = 1
    /\ lookups' = <<>>
    /\ sleeps' = 0
    /\ soup' = <<>>
    /\ scraped' = NotScraped
    /\ pc' = "enrich_loop"
    /\ UNCHANGED <<famous_vars, config_vars, import_vars, closing_vars,
                   db_vars, rule_vars, analysis_result, entry, k,
                   enriched_df, all_results, files, hist>>

\* Lines 165-172: a row that needs nothing is skipped
EnrichSkip ==
    /\ pc = "enrich_loop"
    /\ i <= Len(constituents_df.rows)
    /\ ~should_fetch(constituents_df.rows[i])
    /\ i' = i + 1
    /\ UNCHANGED <<famous_vars, config_vars, import_vars, closing_vars,
                   db_vars, rule_vars, analysis_result, entry, pc, k, soup,
                   scraped, constituents_df, entry_df, lookups, sleeps,
                   enriched_df, all_results, files, hist>>

\* Lines 174-186: the lookup returns info
EnrichLookup ==
    /\ pc = "enrich_loop"
    /\ i <= Len(constituents_df.rows)
    /\ should_fetch(constituents_df.rows[i])
    /\ \E info \in Infos :
        /\ constituents_df' =
              [constituents_df EXCEPT !.rows[i] = FillRow(@, info)]
        /\ lookups' = Append(lookups, [row |-> i, raised |-> FALSE,
                                       info |-> info])
    /\ sleeps' = sleeps + 1
    /\ i' = i + 1
    /\ UNCHANGED <<famous_vars, config_vars, import_vars, closing_vars,
                   db_vars, rule_vars, analysis_result, entry, pc, k, soup,
                   scraped, entry_df, enriched_df, all_results, files, hist>>

\* The lookup raises with the try around the loop instead of inside it: the
\* loop ends at the first failure.
EnrichLookupRaisesEndsLoop ==
    /\ pc = "enrich_loop"
    /\ i <= Len(constituents_df.rows)
    /\ should_fetch(constituents_df.rows[i])
    /\ lookups' = Append(lookups, [row |-> i, raised |-> TRUE,
                                   info |-> [sector |-> <<>>,
                                             marketCap |-> <<>>]])
    /\ i' = Len(constituents_df.rows) + 1
    /\ UNCHANGED <<famous_vars, config_vars, import_vars, closing_vars,
                   db_vars, rule_vars, analysis_result, entry, pc, k, soup,
                   scraped, constituents_df, entry_df, sleeps, enriched_df,
                   all_results, files, hist>>

\* Lines 174-176, 187-188: the lookup raises
EnrichLookupRaises ==
    /\ pc = "enrich_loop"
    /\ i <= Len(constituents_df.rows)
    /\ should_fetch(constituents_df.rows[i])
    /\ lookups' = Append(lookups, [row |-> i, raised |-> TRUE,
                                   info |-> [sector |-> <<>>,
                                             marketCap |-> <<>>]])
    /\ i' = i + 1
    /\ UNCHANGED <<famous_vars, config_vars, import_vars, closing_vars,
                   db_vars, rule_vars, analysis_result, entry, pc, k, soup,
                   scraped, constituents_df, entry_df, sleeps, enriched_df,
                   all_results, files, hist>>

\* Lines 190-193, and lines 247-248 of main
EnrichReturn ==
    /\ pc = "enrich_loop"
    /\ i > Len(constituents_df.rows)
    /\ enriched_df' = QualityGate(constituents_df)
    /\ pc' = IF entry = "enrich" THEN "done"
             ELSE IF ~Empty(QualityGate(constituents_df)) THEN "analyze"
             ELSE "next_index"
    /\ UNCHANGED <<famous_vars, config_vars, import_vars, closing_vars,
                   db_vars, rule_vars, analysis_result, entry, k, soup,
                   scraped, constituents_df, entry_df, i, lookups, sleeps,
                   all_results, files, hist>>

\* Lines 249-255: analyze_and_display_results, and its result stored when
\* main called it and it is not None
Analyze ==
    /\ pc = "analyze"
    /\ \E corder \in Descending(Sectors(enriched_df),
                                [sec \in Sectors(enriched_df) |->
                                    CountOf(enriched_df, sec)]),
          worder \in Descending(Sectors(enriched_df),
                                [sec \in Sectors(enriched_df) |->
                                    CapOf(enriched_df, sec)]) :
        \E res \in {analyze_and_display_results(enriched_df, corder, worder)} :
            /\ analysis_result' = res
            /\ all_results' =
                  IF entry = "main" /\ ~res.none
                  THEN Append(all_results,
                              [name |-> INDEX_CONFIG(INDEX_KEYS[k]).name,
                               count_breakdown |-> res.count_breakdown,
                               weight_breakdown |-> res.weight_breakdown])
                  ELSE all_results
    /\ pc' = IF entry = "analyze" THEN "done" ELSE "next_index"
    /\ UNCHANGED <<famous_vars, config_vars, import_vars, closing_vars,
                   db_vars, rule_vars, entry, k, soup, scraped,
                   constituents_df, entry_df, i, lookups, sleeps,
                   enriched_df, files, hist>>

\* Line 239 with the loop left at the first index that yields no table
NextIndexEndsOnFailure ==
    /\ pc = "next_index"
    /\ pc' = IF hist[Len(hist)].none THEN "save" ELSE AfterIndex
    /\ k' = k + 1
    /\ soup' = <<>>
    /\ scraped' = NotScraped
    /\ constituents_df' = NoneDf
    /\ entry_df' = NoneDf
    /\ i' = 0
    /\ lookups' = <<>>
    /\ sleeps' = 0
    /\ enriched_df' = NoneDf
    /\ analysis_result' = NoResult
    /\ UNCHANGED <<famous_vars, config_vars, import_vars, closing_vars,
                   db_vars, rule_vars, entry, all_results, files, hist>>

\* Line 239: the loop goes to the next index, or ends.  The frames and the
\* locals of the calls of the finished iteration are read no more.
NextIndex ==
    /\ pc = "next_index"
    /\ pc' = AfterIndex
    /\ k' = k + 1
    /\ soup' = <<>>
    /\ scraped' = NotScraped
    /\ constituents_df' = NoneDf
    /\ entry_df' = NoneDf
    /\ i' = 0
    /\ lookups' = <<>>
    /\ sleeps' = 0
    /\ enriched_df' = NoneDf
    /\ analysis_result' = NoResult
    /\ UNCHANGED <<famous_vars, config_vars, import_vars, closing_vars,
                   db_vars, rule_vars, entry, all_results, files, hist>>

\* Lines 258-269: two CSV files per stored result
Save ==
    /\ pc = "save"
    /\ files' =
          [f \in 1..(2 * Len(all_results)) |->
              LET res == all_results[(f + 1) \div 2]
              IN IF f % 2 = 1
                 THEN [dir |-> "global_index_reports",
                       name |-> clean_name(res.name) \o sCountCsv,
                       data |-> res.count_breakdown]
                 ELSE [dir |-> "global_index_reports",
                       name |-> clean_name(res.name) \o sWeightCsv,
                       data |-> res.weight_breakdown]]
    /\ pc' = "done"
    /\ UNCHANGED <<famous_vars, config_vars, import_vars, closing_vars,
                   db_vars, rule_vars, analysis_result, entry, k, soup,
                   scraped, constituents_df, entry_df, i, lookups, sleeps,
                   enriched_df, all_results, hist>>

Next ==
    \/ GetConstituentTable
    \/ EnrichBegin
    \/ EnrichSkip
    \/ EnrichLookup
    \/ EnrichLookupRaises
    \/ EnrichReturn
    \/ Analyze
    \/ NextIndex
    \/ Save

Spec == Init /\ [][Next]_vars

\* The script is one sequential thread: a step that can be taken is taken.
SpecLive == Spec /\ WF_vars(Next)

\* main over the pages of the end-to-end scenario.  Every record comes from
\* the page without a market cap, so no record is skipped by the loop.
NextScenario ==
    \/ GetScenarioTable
    \/ EnrichBegin
    \/ EnrichLookup
    \/ EnrichLookupRaises
    \/ EnrichReturn
    \/ Analyze
    \/ NextIndex
    \/ Save

SpecScenario == InitMain /\ [][NextScenario]_vars

\* analyze_and_display_results called on its own
NextAnalyze == Analyze

SpecAnalyze == InitAnalyze /\ [][NextAnalyze]_vars

\* The script's entries with the 'strategy' entry of the configured indices
\* being either name, over pages with and without the landmark heading.
\* Line 87 reads the configuration entry and lines 88-99 use only its 'name'
\* and 'args'.
InitStrategy ==
    /\ strategy \in {"css_class", "landmark"}
    /\ landmark \in BOOLEAN
    /\ NoRule
    /\ enriched_df = NoneDf
    /\ \/ /\ entry = "main"
          /\ pc = "get_table"
          /\ constituents_df = NoneDf
       \/ /\ entry = "enrich"
          /\ pc = "enrich"
          /\ constituents_df \in InputFrames
    /\ InitCommon

SpecStrategy == InitStrategy /\ [][Next]_vars

-----------------------------------------------------------------------------
(* python famous_indices.py *)

\* The runs of the main block: one per entry of INDEX_CONFIG, then Russell
FamousRuns == Len(FAMOUS_KEYS) + 1

InitWiki ==
    /\ AsConfigured
    /\ NoRule
    /\ enriched_df = NoneDf
    /\ entry = "famous_indices"
    /\ pc = "scrape"
    /\ constituents_df = NoneDf
    /\ InitCommon

\* The first table of the page that the identifier of the index matches
FirstIdentified(key, page) ==
    LET ident == FAMOUS_CONFIG(key).table_identifier
    IN {p \in 1..Len(page) :
            /\ Identified(WikiTable(page[p]), ident)
            /\ \A q \in 1..(p - 1) : ~Identified(WikiTable(page[q]), ident)}

\* What the page fetched for the index is like: whether the fetch succeeded,
\* whether the identified table is there, parses and has the ticker column,
\* and how many rows it has.
WikiFacts(key, page) ==
    IF page = fetch_error
    THEN [fetched |-> FALSE, found |-> FALSE, parsed |-> FALSE,
          has_column |-> FALSE, rows |-> 0]
    ELSE IF FirstIdentified(key, page) = {}
    THEN [fetched |-> TRUE, found |-> FALSE, parsed |-> FALSE,
          has_column |-> FALSE, rows |-> 0]
    ELSE LET t == WikiTable(page[CHOOSE p \in FirstIdentified(key, page) : TRUE])
         IN [fetched |-> TRUE, found |-> TRUE, parsed |-> t.parse,
             has_column |-> HasColumn(t, FAMOUS_CONFIG(key).ticker_column),
             rows |-> Len(t.rows)]

RussellFacts(page) ==
    [fetched |-> page.fetched, found |-> page.table, parsed |-> page.table,
     has_column |-> page.table,
     rows |-> IF page.rows = <<>> THEN 0 ELSE Len(page.rows) - 1]

Facts == IF k <= Len(FAMOUS_KEYS) THEN WikiFacts(FAMOUS_KEYS[k], wiki_soup)
         ELSE RussellFacts(wiki_soup)

\* Line 180: tickers = get_tickers_from_wikipedia(config)
ScrapeIndex ==
    /\ pc = "scrape"
    /\ k <= Len(FAMOUS_KEYS)
    /\ \E page \in WikiPages \cup {fetch_error} :
          LET r == get_tickers_from_wikipedia(FAMOUS_KEYS[k], page)
          IN /\ wiki_soup' = page
             /\ tickers' = r.ret
             /\ logged' = r.logged
    /\ pc' = "fetch"
    /\ UNCHANGED <<entry, k, hist, eodhd_vars, analysis_result, config_vars,
                   import_vars, closing_vars, db_vars, rule_vars, fetching,
                   runs>>

\* Line 183: russell_tickers = get_russell_2000_tickers()
ScrapeRussell ==
    /\ pc = "scrape"
    /\ k = FamousRuns
    /\ \E page \in RussellPages :
          LET r == get_russell_2000_tickers(page)
          IN /\ wiki_soup' = page
             /\ tickers' = r.ret
             /\ logged' = r.logged
    /\ pc' = "fetch"
    /\ UNCHANGED <<entry, k, hist, eodhd_vars, analysis_result, config_vars,
                   import_vars, closing_vars, db_vars, rule_vars, fetching,
                   runs>>

Run(fetch) == [facts |-> Facts, ret |-> tickers, logged |-> logged,
               fetch |-> fetch]

\* Lines 115-117: no tickers, the fetch is skipped with a warning
FetchSkip ==
    /\ pc = "fetch"
    /\ tickers = <<>>
    /\ runs' = Append(runs, Run("skipped"))
    /\ wiki_soup' = <<>>
    /\ pc' = "next_run"
    /\ UNCHANGED <<entry, k, hist, eodhd_vars, analysis_result, config_vars,
                   import_vars, closing_vars, db_vars, rule_vars, tickers,
                   logged, fetching>>

\* Lines 119-126: the fetch starts
FetchBegin ==
    /\ pc = "fetch"
    /\ tickers # <<>>
    /\ runs' = Append(runs, Run("started"))
    /\ wiki_soup' = <<>>
    /\ fetching' = [NotFetching EXCEPT !.at = 1]
    /\ pc' = "ticker"
    /\ UNCHANGED <<entry, k, hist, eodhd_vars, analysis_result, config_vars,
                   import_vars, closing_vars, db_vars, rule_vars, tickers,
                   logged>>

\* Lines 129-138: the lookup has no regularMarketPrice; sleep, continue
TickerNoPrice ==
    /\ pc = "ticker"
    /\ fetching.at <= Len(tickers)
    /\ fetching' = [fetching EXCEPT !.at = @ + 1, !.calls = @ + 1,
                                    !.sleeps = @ + 1]
    /\ UNCHANGED <<entry, pc, k, hist, eodhd_vars, analysis_result,
                   config_vars, import_vars, closing_vars, db_vars,
                   rule_vars, tickers, logged, wiki_soup, runs>>

\* Lines 129-153 and 157: info kept, history kept unless empty, each of the
\* three statements kept unless empty; sleep
TickerFetched ==
    /\ pc = "ticker"
    /\ fetching.at <= Len(tickers)
    /\ \E h \in 0..1, f \in 0..3 :
          fetching' = [fetching EXCEPT !.at = @ + 1, !.calls = @ + 1,
                                       !.sleeps = @ + 1, !.info = @ + 1,
                                       !.historical = @ + h,
                                       !.financials = @ + f]
    /\ UNCHANGED <<entry, pc, k, hist, eodhd_vars, analysis_result,
                   config_vars, import_vars, closing_vars, db_vars,
                   rule_vars, tickers, logged, wiki_soup, runs>>

\* Lines 155-157: a call of the try block raises, at ticker.info (nothing
\* kept), at ticker.history (info kept) or at a statement (the statements
\* before it kept); the error is logged, then sleep
TickerRaises ==
    /\ pc = "ticker"
    /\ fetching.at <= Len(tickers)
    /\ \E a \in 0..1, h \in 0..1, f \in 0..2 :
          /\ a = 0 => h = 0 /\ f = 0
          /\ fetching' = [fetching EXCEPT !.at = @ + 1, !.calls = @ + 1,
                                          !.sleeps = @ + 1, !.info = @ + a,
                                          !.historical = @ + h,
                                          !.financials = @ + f]
    /\ UNCHANGED <<entry, pc, k, hist, eodhd_vars, analysis_result,
                   config_vars, import_vars, closing_vars, db_vars,
                   rule_vars, tickers, logged, wiki_soup, runs>>

\* Lines 159-174: one file per list that is not empty
FetchSave ==
    /\ pc = "ticker"
    /\ fetching.at > Len(tickers)
    /\ fetching' =
          [fetching EXCEPT !.saved =
              {"info" : x \in {1} \cap 1..fetching.info}
              \cup {"historical_data" : x \in {1} \cap 1..fetching.historical}
              \cup {"financials" : x \in {1} \cap 1..fetching.financials}]
    /\ pc' = "next_run"
    /\ UNCHANGED <<entry, k, hist, eodhd_vars, analysis_result, config_vars,
                   import_vars, closing_vars, db_vars, rule_vars, tickers,
                   logged, wiki_soup, runs>>

\* Lines 179 and 183: the next index, then Russell, then the end.  The
\* locals of the finished calls are read no more.
NextRun ==
    /\ pc = "next_run"
    /\ k' = k + 1
    /\ pc' = IF k < FamousRuns THEN "scrape" ELSE "done"
    /\ tickers' = <<>>
    /\ logged' = None
    /\ fetching' = NotFetching
    /\ UNCHANGED <<entry, hist, eodhd_vars, analysis_result, config_vars,
                   import_vars, closing_vars, db_vars, rule_vars, wiki_soup,
                   runs>>

NextWiki ==
    \/ ScrapeIndex
    \/ ScrapeRussell
    \/ FetchSkip
    \/ FetchBegin
    \/ TickerNoPrice
    \/ TickerFetched
    \/ TickerRaises
    \/ FetchSave
    \/ NextRun

SpecWiki == InitWiki /\ [][NextWiki]_vars

-----------------------------------------------------------------------------
(* Properties of src/eodhd_index_test.py *)

\* The index whose table was fetched last
LastKey == hist[Len(hist)].index_key

\* The positions in the page of the tables carrying the class of the index
Candidates == {p \in 1..Len(soup) :
                 HasClass(Table(soup[p]), INDEX_CONFIG(LastKey).args.class_)}

\* The candidate at position p parses and holds the ticker column
Qualifies(p) ==
    HasColumn(Table(soup[p]), INDEX_CONFIG(LastKey).args.ticker_column)

\* C1: css-class selection returns the first table, in document order among
\* the tables carrying the class, whose column names (a hierarchical header
\* collapsed with '_') contain the ticker column: every earlier candidate
\* lacks the column or does not parse, no later one is returned, and None is
\* returned exactly when no candidate qualifies.
C1_FirstQualifyingTable ==
    scraped.called =>
        /\ scraped.ret # 0 =>
              /\ scraped.ret \in Candidates
              /\ Qualifies(scraped.ret)
              /\ \A p \in Candidates : p < scraped.ret => ~Qualifies(p)
        /\ scraped.ret = 0 => \A p \in Candidates : ~Qualifies(p)

\* Three candidates of which only the second holds the column: the second
\* is returned.
C1_Witness ==
    /\ scraped.called
    /\ Len(soup) = 3
    /\ Candidates = {1, 2, 3}
    /\ {p \in Candidates : Qualifies(p)} = {2}
    /\ scraped.ret = 2

HistEntries == {hist[j] : j \in DOMAIN hist}

\* The page had no table with the class
NoClassTable(e) == e.page.fetched /\ ~e.page.class_tables
\* The page had tables with the class and none held the ticker column
NoTickerColumn(e) ==
    e.page.fetched /\ e.page.class_tables /\ ~e.page.with_column

\* C2 as stated: the value returned to the caller differs between "no table
\* with the class" and "tables with the class, none with the ticker column".
C2_ReturnDistinguishes ==
    \A a, b \in HistEntries :
        NoClassTable(a) /\ NoTickerColumn(b) =>
            <<a.none, a.rows>> # <<b.none, b.rows>>

\* C2 amended: the two sub-causes are told apart by the message the selector
\* prints, each cause having its own message, while the value returned to
\* the caller is None in both.
C2_MessageDistinguishes ==
    /\ ErrNoTables # ErrNoColumn
    /\ \A e \in HistEntries :
          /\ NoClassTable(e) <=> e.selector = ErrNoTables
          /\ NoTickerColumn(e) <=> e.selector = ErrNoColumn
          /\ NoClassTable(e) \/ NoTickerColumn(e) => e.none

\* One run met both sub-causes
C2_Witness ==
    \E a, b \in HistEntries : NoClassTable(a) /\ NoTickerColumn(b)

\* The rows the enrichment loop has passed
Passed == 1..(i - 1)
\* The rows for which the lookup was called
LookedUp == {lookups[j].row : j \in DOMAIN lookups}
\* The enrichment loop is running or has just returned
Enriching == ~entry_df.none

\* C3: the lookup is called for exactly the records that reach the loop with
\* sector 'N/A' or market cap 0, once each; a record with a known sector and
\* a non-zero market cap is never looked up and is left unchanged.
C3_ShortCircuit ==
    Enriching =>
        /\ \A r \in Passed :
              r \in LookedUp <=> (entry_df.rows[r].Sector = "N/A"
                                    \/ entry_df.rows[r].MarketCap = 0)
        /\ \A r \in DOMAIN entry_df.rows :
              r \notin LookedUp => constituents_df.rows[r] = entry_df.rows[r]
        /\ LookedUp \subseteq Passed
        /\ Cardinality(LookedUp) = Len(lookups)

\* A finished enrichment that skipped a complete record and looked up
\* another
C3_Witness ==
    /\ Enriching
    /\ ~enriched_df.none
    /\ \E r \in Passed :
          /\ r \notin LookedUp
          /\ entry_df.rows[r].Sector = "Tech"
          /\ entry_df.rows[r].MarketCap = 500
    /\ LookedUp # {}

\* The rows of the mutated frame that the quality gate has to keep
Positive == {r \in DOMAIN constituents_df.rows :
               constituents_df.rows[r].MarketCap > 0}

\* C4: every record returned by enrich_constituent_data has market cap > 0,
\* the records returned are exactly the records whose market cap is > 0
\* after the loop, in their original order, and the frame handed to the
\* aggregation holds only records with market cap > 0.
C4_QualityGate ==
    /\ ~enriched_df.none =>
          \A j \in DOMAIN enriched_df.rows : enriched_df.rows[j].MarketCap > 0
    /\ ~enriched_df.none /\ ~constituents_df.none =>
          \E at \in [DOMAIN enriched_df.rows -> Positive] :
              /\ \A r \in Positive : \E j \in DOMAIN at : at[j] = r
              /\ \A a, b \in DOMAIN at : a < b => at[a] < at[b]
              /\ \A j \in DOMAIN at :
                    enriched_df.rows[j] = constituents_df.rows[at[j]]
    /\ pc = "analyze" =>
          /\ ~enriched_df.none
          /\ \A j \in DOMAIN enriched_df.rows : enriched_df.rows[j].MarketCap > 0

\* A frame reaches the aggregation after the gate dropped a record of it
C4_Witness ==
    /\ pc = "analyze"
    /\ ~constituents_df.none
    /\ enriched_df.rows # <<>>
    /\ Len(enriched_df.rows) < Len(constituents_df.rows)

\* C5 as stated: after a lookup that succeeded, the record's market cap is
\* the lookup's when the lookup returned one, and is the market cap the
\* record already had when the lookup returned none.
C5_MarketCapKeptWhenLookupHasNone ==
    Enriching =>
        \A j \in DOMAIN lookups :
            ~lookups[j].raised =>
                LET r == lookups[j].row
                    info == lookups[j].info
                IN /\ info.marketCap # <<>> =>
                        constituents_df.rows[r].MarketCap = info.marketCap[1]
                   /\ info.marketCap = <<>> =>
                        constituents_df.rows[r].MarketCap
                            = entry_df.rows[r].MarketCap

\* C6: a sector that is populated before the lookup is the same after the
\* enrichment whatever the lookup returns; a sector that was 'N/A' is the
\* lookup's sector, or 'N/A' when the lookup has none or fails.
C6_SectorNeverOverwritten ==
    Enriching =>
        \A r \in DOMAIN entry_df.rows :
            /\ entry_df.rows[r].Sector # "N/A" =>
                  constituents_df.rows[r].Sector = entry_df.rows[r].Sector
            /\ entry_df.rows[r].Sector = "N/A" =>
                  \A j \in DOMAIN lookups :
                      lookups[j].row = r =>
                          constituents_df.rows[r].Sector =
                              IF lookups[j].raised
                                    \/ lookups[j].info.sector = <<>>
                              THEN "N/A"
                              ELSE lookups[j].info.sector[1]

\* The lookup returned a sector for a record whose sector was populated, and
\* another record's 'N/A' became the lookup's sector
C6_Witness ==
    /\ Enriching
    /\ \E j \in DOMAIN lookups :
          /\ ~lookups[j].raised
          /\ lookups[j].info.sector = <<"Fin">>
          /\ entry_df.rows[lookups[j].row].Sector = "Tech"
          /\ constituents_df.rows[lookups[j].row].Sector = "Tech"
    /\ \E j \in DOMAIN lookups :
          /\ entry_df.rows[lookups[j].row].Sector = "N/A"
          /\ constituents_df.rows[lookups[j].row].Sector = "Fin"

\* The rows whose lookup raised
Failed == {lookups[j].row : j \in {n \in DOMAIN lookups : lookups[n].raised}}

\* C7: a lookup that fails leaves the record's sector and market cap as they
\* were; the loop goes on to every later record, in order (when the
\* enrichment returns, every record that needed a lookup has had one); and
\* the failed record is dropped by the quality gate exactly when its market
\* cap is 0.
C7_LookupFailureIsolated ==
    Enriching =>
        /\ \A r \in Failed : constituents_df.rows[r] = entry_df.rows[r]
        /\ \A a, b \in DOMAIN lookups : a < b => lookups[a].row < lookups[b].row
        /\ ~enriched_df.none =>
              /\ i = Len(entry_df.rows) + 1
              /\ \A r \in DOMAIN entry_df.rows :
                    (entry_df.rows[r].Sector = "N/A"
                        \/ entry_df.rows[r].MarketCap = 0) => r \in LookedUp
              /\ \A r \in Failed :
                    entry_df.rows[r].MarketCap # 0 <=>
                        \E j \in DOMAIN enriched_df.rows :
                            enriched_df.rows[j] = entry_df.rows[r]

\* The first record's lookup failed, a later record was looked up, and the
\* failed record, whose market cap was known, came through the gate
C7_Witness ==
    /\ Enriching
    /\ ~enriched_df.none
    /\ 1 \in Failed
    /\ entry_df.rows[1].MarketCap = 500
    /\ \E j \in DOMAIN lookups : lookups[j].row > 1 /\ ~lookups[j].raised
    /\ \E j \in DOMAIN enriched_df.rows : enriched_df.rows[j] = entry_df.rows[1]

\* C9 as stated: the frame the extractor returns holds no two records with
\* the same canonical ticker.
C9_NoDuplicateTickers ==
    ~constituents_df.none =>
        \A a, b \in DOMAIN constituents_df.rows :
            a # b => constituents_df.rows[a].Ticker
                        # constituents_df.rows[b].Ticker

\* The identified table of the page of the current index
IdentifiedTable ==
    WikiTable(wiki_soup[CHOOSE p \in FirstIdentified(FAMOUS_KEYS[k], wiki_soup) :
                            TRUE])

\* The rule of the current index applied to each raw value of the ticker
\* column of the identified table, row by row
RuleByRow ==
    LET t == IdentifiedTable
        pos == ColPos(Columns(t), FAMOUS_CONFIG(FAMOUS_KEYS[k]).ticker_column)
    IN [r \in 1..Len(t.rows) |-> clean_fn(FAMOUS_KEYS[k], Str(t.rows[r][pos]))]

Accepted(c) == c.ok

\* The scraper of a configured index has returned and its table was usable
Scraped ==
    /\ entry = "famous_indices"
    /\ pc = "fetch"
    /\ k <= Len(FAMOUS_KEYS)
    /\ Facts.found /\ Facts.parsed /\ Facts.has_column

\* C8 as stated: a raw value its rule cannot normalize costs that record
\* only; the scraper returns, in table order, the normalized value of every
\* row whose raw value the rule accepts.
C8_FailureIsPerRecord ==
    Scraped =>
        LET kept == SelectSeq(RuleByRow, Accepted)
        IN tickers = [j \in 1..Len(kept) |-> kept[j].v]

RunEntries == {runs[j] : j \in DOMAIN runs}

\* The page and the table were found and the table had no rows
ZeroRows(e) ==
    /\ e.facts.fetched /\ e.facts.found /\ e.facts.parsed /\ e.facts.has_column
    /\ e.facts.rows = 0
\* The fetch of the page failed, or the page had no such table
FetchOrTableFailure(e) == ~e.facts.fetched \/ ~e.facts.found

\* C10 as stated: a run whose table had zero rows differs from a run whose
\* fetch failed or whose table was not found, in what the scraper returned
\* and in what the driver did with it.
C10_EmptyDistinctFromFailure ==
    \A a, b \in RunEntries :
        ZeroRows(a) /\ FetchOrTableFailure(b) =>
            a.ret # b.ret /\ a.fetch # b.fetch

-----------------------------------------------------------------------------
(* A normalization rule applied on its own *)

\* The rules: the clean_fn of each index of famous_indices.py, and the
\* per-row lambdas of get_constituent_table
Rules == {FAMOUS_KEYS[j] : j \in DOMAIN FAMOUS_KEYS}
            \cup {INDEX_KEYS[j] : j \in DOMAIN INDEX_KEYS}

PerRow(r) == r \in {INDEX_KEYS[j] : j \in DOMAIN INDEX_KEYS}

\* The longest string of digits given to a rule
MaxDigits == 5

RawDigits == {"0", "5", "9"}

DigitStrings == SeqsUpTo(RawDigits, MaxDigits) \ {<<>>}

\* The raw values a rule is given: strings of digits, and cell texts as
\* they stand in Wikipedia tables
RawValues ==
    DigitStrings
    \cup {<<"A","B">>, <<"B",".","B">>, <<"T",":"," ","7">>, <<"H","K">>,
          <<"^","A","B","C","[","1","]">>, <<"A","B",","," ","C","D">>,
          <<" ","5"," ">>, <<"-","5">>}

RowCountries == {"Hong Kong", "Brazil", "Japan"}

\* How many times in a row a rule is applied to what it returned
MaxApplications == 2

\* The rule on one value: ok is FALSE where the rule raises
apply_rule(r, str, c) ==
    IF PerRow(r) THEN [ok |-> TRUE, v |-> custom_clean(r, StrCell(str), c)]
    ELSE clean_fn(r, str)

InitRule ==
    /\ AsConfigured
    /\ entry = "rule"
    /\ pc = "apply"
    /\ rule \in Rules
    /\ raw \in RawValues
    /\ country \in IF PerRow(rule) THEN RowCountries ELSE {None}
    /\ outs = <<>>
    /\ constituents_df = NoneDf
    /\ enriched_df = NoneDf
    /\ InitCommon

\* The rule is applied to the raw value, then to the value it returned
ApplyRule ==
    /\ pc = "apply"
    /\ Len(outs) < MaxApplications
    /\ outs # <<>> => outs[Len(outs)].ok
    /\ outs' = Append(outs,
                      apply_rule(rule,
                                 IF outs = <<>> THEN raw ELSE outs[Len(outs)].v,
                                 country))
    /\ UNCHANGED <<entry, pc, k, hist, eodhd_vars, analysis_result,
                   famous_vars, config_vars, import_vars, closing_vars,
                   db_vars, rule, raw, country>>

NextRule == ApplyRule

SpecRule == InitRule /\ [][NextRule]_vars

-----------------------------------------------------------------------------
(* The batch driver, the normalization rules, the breakdowns *)

\* The indices main has attempted so far, in the order of the attempts
Attempted == [j \in DOMAIN hist |-> hist[j].index_key]

\* C11: main attempts the configured indices one by one in configuration
\* order, each once; whatever happened to the earlier indices, all of them
\* have been attempted when the loop is over, and the run reaches the end of
\* its saving step.
C11_EveryIndexAttemptedInOrder ==
    /\ [](entry = "main" => Attempted = SubSeq(INDEX_KEYS, 1, Len(hist)))
    /\ [](entry = "main" /\ pc \in {"save", "done"} => Attempted = INDEX_KEYS)
    /\ (entry = "main" ~> pc = "done")

\* The first index yielded no table, the second was attempted and analyzed,
\* and the files are saved
C11_Witness ==
    /\ entry = "main"
    /\ pc = "done"
    /\ hist[1].none
    /\ Attempted = INDEX_KEYS
    /\ Len(all_results) = 1
    /\ Len(files) = 2

sHK == <<".", "H", "K">>

DigitsOnly(str) == str # <<>> /\ \A j \in 1..Len(str) : str[j] \in Digits

\* The digits of str from its first digit other than 0 on ("0" for zero)
RECURSIVE Significant(_)
Significant(str) ==
    IF Len(str) > 1 /\ str[1] = "0" THEN Significant(Tail(str)) ELSE str

Zeros(n) == [j \in 1..n |-> "0"]

\* The zero-pad rule has been applied to a raw value made of digits only
ZeroPadded ==
    /\ entry = "rule"
    /\ rule = "hangseng"
    /\ DigitsOnly(raw)
    /\ Len(outs) >= 1

C13_RuleIdempotent ==
    entry = "rule" /\ Len(outs) = 2 =>
        outs[2].ok /\ outs[2].v = outs[1].v

\* C14 as stated: no canonical ticker holds a bracketed annotation or a
\* second comma-separated alternative: the brackets and what follows a comma
\* are gone from what a rule returns.
C14_CitationsStripped ==
    entry = "rule" /\ Len(outs) >= 1 /\ outs[1].ok =>
        \A j \in 1..Len(outs[1].v) : outs[1].v[j] \notin {"[", "]", ","}

\* The country-to-suffix table of each multi-country index (lines 116, 122)
CountrySuffixes(index_key) ==
    IF index_key = "spasia50"
    THEN {<<"Hong Kong", <<".", "H", "K">>>>, <<"South Korea", <<".", "K", "S">>>>,
          <<"Singapore", <<".", "S", "I">>>>, <<"Taiwan", <<".", "T", "W">>>>}
    ELSE {<<"Brazil", <<".", "S", "A">>>>, <<"Mexico", <<".", "M", "X">>>>,
          <<"Chile", <<".", "S", "N">>>>, <<"Peru", <<".", "L", "M">>>>,
          <<"Colombia", <<".", "C", "N">>>>}

Listed(index_key, c) == \E e \in CountrySuffixes(index_key) : e[1] = c

SuffixFor(index_key, c) ==
    IF Listed(index_key, c)
    THEN (CHOOSE e \in CountrySuffixes(index_key) : e[1] = c)[2]
    ELSE <<>>

\* The selector of main's current index has chosen a table
TableSelected == entry = "main" /\ scraped.called /\ scraped.ret # 0

SelectedTable == Table(soup[scraped.ret])

\* The text of the ticker cell and the country of row r of the chosen table
RawTicker(r) ==
    Str(SelectedTable.rows[r][ColPos(Columns(SelectedTable),
                              INDEX_CONFIG(INDEX_KEYS[k]).args.ticker_column)])
RowCountry(r) ==
    SelectedTable.rows[r][ColPos(Columns(SelectedTable), sCountry)]

\* C15: when the chosen table of a multi-country index has a Country
\* column, the extraction succeeds whatever the countries are, and record r
\* carries the raw ticker of row r followed by the suffix the index's table
\* gives for the row's country, or by nothing for a country not in it.
C15_PerRowExchangeSuffix ==
    TableSelected /\ InSeq(sCountry, Columns(SelectedTable)) =>
        /\ ~constituents_df.none
        /\ Len(constituents_df.rows) = Len(SelectedTable.rows)
        /\ \A r \in DOMAIN constituents_df.rows :
              constituents_df.rows[r].Ticker =
                  RawTicker(r) \o SuffixFor(INDEX_KEYS[k], RowCountry(r))

\* The Asia table: 'AB' of Hong Kong, and 5 of Japan, which is not listed
C15_Witness ==
    /\ TableSelected
    /\ INDEX_KEYS[k] = "spasia50"
    /\ Len(constituents_df.rows) = 2
    /\ RowCountry(1) = "Hong Kong" /\ RowCountry(2) = "Japan"
    /\ constituents_df.rows[1].Ticker = <<"A", "B", ".", "H", "K">>
    /\ constituents_df.rows[2].Ticker = <<"5">>

\* The position of the wiki column 'Industry' in the chosen table, 0 if absent
IndustryPos == ColPos(Columns(SelectedTable), sIndustry)
\* The position of a wiki column 'Sector'
WikiSectorPos == ColPos(Columns(SelectedTable), <<"S", "e", "c", "t", "o", "r">>)

\* The extractor of main's current index has returned a frame
Extracted == TableSelected /\ ~constituents_df.none

\* C16 as stated: the mapping pairs the wiki column 'Sector' with the
\* standard attribute 'Industry': the records carry 'Industry', holding row
\* by row the wiki column 'Sector', or 'N/A' when the table has no such
\* column.
C16_WikiSectorBecomesIndustry ==
    Extracted =>
        /\ "Industry" \in constituents_df.columns
        /\ \A r \in DOMAIN constituents_df.rows :
              constituents_df.rows[r].Industry =
                  IF WikiSectorPos # 0 THEN SelectedTable.rows[r][WikiSectorPos]
                  ELSE "N/A"

\* C16 amended: the mapping pairs the standard attribute 'Sector' with the
\* wiki column 'Industry': the records carry 'Sector', holding row by row
\* the wiki column 'Industry', or 'N/A' in every record when the chosen
\* table has no 'Industry' column.
C16_WikiIndustryBecomesSector ==
    Extracted =>
        /\ constituents_df.columns = {"Ticker", "Sector"}
        /\ \A r \in DOMAIN constituents_df.rows :
              constituents_df.rows[r].Sector =
                  IF IndustryPos # 0 THEN SelectedTable.rows[r][IndustryPos]
                  ELSE "N/A"

\* The Asia table has no Industry column: both records carry 'N/A'
C16_Witness ==
    /\ Extracted
    /\ IndustryPos = 0
    /\ Len(constituents_df.rows) = 2
    /\ \A r \in DOMAIN constituents_df.rows :
          constituents_df.rows[r].Sector = "N/A"

\* C17: for an index configured with the landmark strategy the table is
\* located through the landmark heading only: on a page without the
\* landmark heading the selector returns no table (and raises nothing), css
\* class selection is not fallen back to, and the remaining indices of the
\* batch are still attempted.
C17_LandmarkOnly ==
    entry = "main" /\ strategy = "landmark" =>
        /\ \A j \in DOMAIN hist : ~landmark => hist[j].none
        /\ pc \in {"save", "done"} => Attempted = INDEX_KEYS

RECURSIVE SumSeq(_)
SumSeq(q) == IF q = <<>> THEN 0 ELSE q[1] + SumSeq(Tail(q))

\* The distinct sectors of the records of df, an empty cell being one of them
DistinctSectors(df) == {df.rows[r].Sector : r \in DOMAIN df.rows}

\* C18: for every non-empty record set the count breakdown has one row per
\* distinct sector of the records, each count is the number of records with
\* that sector, each percentage is 100 x count / number of records, the
\* counts sum to the number of records and the percentages sum to 100.
C18_CountBreakdown ==
    ~analysis_result.none =>
        LET df == enriched_df
            cb == analysis_result.count_breakdown.rows
        IN /\ Len(cb) = Cardinality(DistinctSectors(df))
           /\ {cb[j].Sector : j \in DOMAIN cb} = DistinctSectors(df)
           /\ \A j \in DOMAIN cb :
                 /\ cb[j].Count = CountOf(df, cb[j].Sector)
                 /\ cb[j].Percentage = [num |-> 100 * cb[j].Count,
                                        den |-> Len(df.rows)]
           /\ SumSeq([j \in DOMAIN cb |-> cb[j].Count]) = Len(df.rows)
           /\ SumSeq([j \in DOMAIN cb |-> cb[j].Percentage.num])
                 = 100 * Len(df.rows)

\* C19: for every non-empty record set that passed the quality gate the
\* weight breakdown has one row per distinct sector, each row's sum is the
\* sum of the market caps of that sector's records, the rows are in
\* descending order of that sum, the sums add up to the total market cap of
\* all records, and the weights sum to 100.
C19_WeightBreakdown ==
    entry = "main" /\ ~analysis_result.none =>
        LET df == enriched_df
            wb == analysis_result.weight_breakdown.rows
            total == SumCaps(df.rows)
        IN /\ Len(wb) = Cardinality(DistinctSectors(df))
           /\ {wb[j].Sector : j \in DOMAIN wb} = DistinctSectors(df)
           /\ \A j \in DOMAIN wb : wb[j].MarketCap = CapOf(df, wb[j].Sector)
           /\ \A a, b \in DOMAIN wb :
                 a < b => wb[a].MarketCap >= wb[b].MarketCap
           /\ SumSeq([j \in DOMAIN wb |-> wb[j].MarketCap]) = total
           /\ \A j \in DOMAIN wb : wb[j].Weight.den = total
           /\ total # 0
           /\ SumSeq([j \in DOMAIN wb |-> wb[j].Weight.num]) = 100 * total

-----------------------------------------------------------------------------
(* The throttle, the output files, the end-to-end scenario *)

\* C21: in the enrichment loop every external lookup made so far, whether it
\* returned or raised, has been followed by the fixed delay: the number of
\* delays equals the number of lookups made.
C21_DelayAfterEveryLookup ==
    pc = "enrich_loop" => sleeps = Len(lookups)

\* The files written under the name of the stored result at position j
FilesOf(j) ==
    {f \in DOMAIN files :
        files[f].name \in {clean_name(all_results[j].name) \o sCountCsv,
                           clean_name(all_results[j].name) \o sWeightCsv}}

\* C22: when main is over, every index that reached the aggregation with at
\* least one record has exactly two files, a count breakdown with the
\* columns Sector, Count, Percentage in that order and a weight breakdown
\* with the columns Sector, Weight (%) in that order; the other indices have
\* no file.
C22_TwoArtifactsWithExactColumns ==
    entry = "main" /\ pc = "done" =>
        /\ Len(files) = 2 * Len(all_results)
        /\ \A j \in DOMAIN all_results :
              /\ Cardinality(FilesOf(j)) = 2
              /\ \A f \in FilesOf(j) :
                    \/ /\ files[f].name =
                             clean_name(all_results[j].name) \o sCountCsv
                       /\ files[f].data.columns =
                             <<"Sector", "Count", "Percentage">>
                    \/ /\ files[f].name =
                             clean_name(all_results[j].name) \o sWeightCsv
                       /\ files[f].data.columns = <<"Sector", "Weight (%)">>

\* Exactly one lookup of the current enrichment failed, and every other one
\* returned a market cap above zero
OneLookupFailed ==
    /\ Cardinality({l \in DOMAIN lookups : lookups[l].raised}) = 1
    /\ \A l \in DOMAIN lookups :
          ~lookups[l].raised => InfoMarketCap(lookups[l].info) > 0

\* The first index, whose page holds the scenario table, is the current one
\* and has been extracted
ScenarioExtracted ==
    /\ entry = "main"
    /\ k = 1
    /\ Len(hist) = 1
    /\ hist[1].page.with_column
    /\ ~constituents_df.none

\* C23: from the table of five rows with one duplicate and one unparseable
\* ticker the extractor yields four records with distinct tickers; when the
\* enrichment then fails for one of them, exactly three records reach the
\* aggregation, and the percentages of the count breakdown sum to 100.
C23_EndToEnd ==
    ScenarioExtracted =>
        /\ Len(constituents_df.rows) = 4
        /\ \A a, b \in DOMAIN constituents_df.rows :
              a # b => constituents_df.rows[a].Ticker
                          # constituents_df.rows[b].Ticker
        /\ pc \in {"analyze", "next_index"} /\ OneLookupFailed =>
              Len(enriched_df.rows) = 3
        /\ ~analysis_result.none /\ OneLookupFailed =>
              LET cb == analysis_result.count_breakdown.rows
              IN SumSeq([j \in DOMAIN cb |-> cb[j].Percentage.num])
                    = 100 * Len(enriched_df.rows)

-----------------------------------------------------------------------------
(* src/db/country_currency_conversion_rate_finder.py *)

\* The values of the country column of the index tables
Countries == {"Greece", "Germany", "Japan", "Atlantis"}

\* CountryInfo(country).currencies(); <<>> when the library does not know the
\* country, which raises inside the try of line 86
currencies(c) ==
    CASE c = "Greece" -> <<"EUR">>
      [] c = "Germany" -> <<"EUR">>
      [] c = "Japan" -> <<"JPY">>
      [] OTHER -> <<>>

Codes == {"EUR", "JPY"}

\* The runs of the script considered
MaxUpdates == 3

\* The rate the API quotes during the run of that number
Rate(run) == run

MappedCountries(map) == {m.country_name : m \in map}
MappedCodes(map) == {m.currency_code : m \in map}

\* Lines 81-105: the countries that get a new row
NewlyMapped(map, country_names) ==
    {c \in country_names : c \notin MappedCountries(map) /\ currencies(c) # <<>>}

\* Lines 132-150: the rows of currency_rates after the loop over
\* processed_codes, a code without a rate being skipped
Store(rates, processed, returned, run) ==
    {r \in rates : r.currency_code \notin processed \cap returned}
    \cup {[currency_code |-> code, rate_to_usd |-> Rate(run)] :
             code \in processed \cap returned}

InitCurrency ==
    /\ AsConfigured
    /\ NoRule
    /\ entry = "currency"
    /\ pc = "cmd"
    /\ constituents_df = NoneDf
    /\ enriched_df = NoneDf
    /\ InitCommon

\* Lines 42-117 of one run: the key file, the countries of the index tables,
\* the new rows of country_currency_map and their commit, the codes to fetch
UpdateBegin ==
    /\ entry = "currency"
    /\ pc = "cmd"
    /\ updates < MaxUpdates
    /\ updates' = updates + 1
    /\ rates_from_api' = {}
    /\ \E key_ok \in BOOLEAN, country_names \in SUBSET Countries :
        IF ~key_ok \/ country_names = {}
        THEN /\ ending' = IF ~key_ok THEN "no_key" ELSE "no_countries"
             /\ processed_codes' = {}
             /\ pc' = "cmd"
             /\ UNCHANGED country_currency_map
        ELSE \E new \in {NewlyMapped(country_currency_map, country_names)} :
             \E map \in {country_currency_map \cup
                            {[country_name |-> c,
                              currency_code |-> currencies(c)[1]] : c \in new}} :
             \E codes \in {IF new # {} THEN {currencies(c)[1] : c \in new}
                           ELSE MappedCodes(map)} :
                /\ country_currency_map' = map
                /\ processed_codes' = codes
                /\ ending' = IF codes = {} THEN "no_codes" ELSE None
                /\ pc' = IF codes = {} THEN "cmd" ELSE "fetch_rates"
    /\ UNCHANGED <<entry, k, hist, eodhd_vars, analysis_result, famous_vars,
                   config_vars, import_vars, closing_vars, rule_vars,
                   currency_rates>>

\* Lines 121-122, 155-165: the request raises; the rollback finds nothing
\* pending, the rows committed at line 107 stay
FetchRatesRaises ==
    /\ pc = "fetch_rates"
    /\ ending' = "api_error"
    /\ pc' = "cmd"
    /\ UNCHANGED <<entry, k, hist, eodhd_vars, analysis_result, famous_vars,
                   config_vars, import_vars, closing_vars, rule_vars,
                   country_currency_map, currency_rates, processed_codes,
                   rates_from_api, updates>>

\* Lines 123-127: the response is not a success
FetchRatesNotSuccess ==
    /\ pc = "fetch_rates"
    /\ ending' = "api_not_success"
    /\ pc' = "cmd"
    /\ UNCHANGED <<entry, k, hist, eodhd_vars, analysis_result, famous_vars,
                   config_vars, import_vars, closing_vars, rule_vars,
                   country_currency_map, currency_rates, processed_codes,
                   rates_from_api, updates>>

\* Lines 129-153: the rates of the response are stored and committed
StoreRates ==
    /\ pc = "fetch_rates"
    /\ \E returned \in SUBSET Codes :
        /\ rates_from_api' = returned
        /\ currency_rates' = Store(currency_rates, processed_codes, returned,
                                   updates)
    /\ ending' = "rates_committed"
    /\ pc' = "cmd"
    /\ UNCHANGED <<entry, k, hist, eodhd_vars, analysis_result, famous_vars,
                   config_vars, import_vars, closing_vars, rule_vars,
                   country_currency_map, processed_codes, updates>>

NextCurrency ==
    \/ UpdateBegin
    \/ FetchRatesRaises
    \/ FetchRatesNotSuccess
    \/ StoreRates

SpecCurrency == InitCurrency /\ [][NextCurrency]_vars

\* C24: whenever a run of update_currency_data ends by committing rates,
\* every currency code of country_currency_map for which the API returned a
\* rate has a currency_rates row holding the rate of that run.
C24_EveryMappedCurrencyRefreshed ==
    entry = "currency" /\ ending = "rates_committed" =>
        \A m \in country_currency_map :
            m.currency_code \in rates_from_api =>
                [currency_code |-> m.currency_code,
                 rate_to_usd |-> Rate(updates)] \in currency_rates

-----------------------------------------------------------------------------
(* src/db_maker.py *)

\* The last position up to p at which the character ch occurs in str, 0 if
\* nowhere
RECURSIVE RFind(_, _, _)
RFind(str, ch, p) ==
    IF p = 0 THEN 0
    ELSE IF str[p] = ch THEN p
    ELSE RFind(str, ch, p - 1)

\* os.path.splitext(file_name)[0]
splitext(file_name) ==
    LET p == RFind(file_name, ".", Len(file_name))
    IN IF p <= 1 THEN file_name ELSE SubSeq(file_name, 1, p - 1)

\* str.endswith(suffix)
endswith(str, suffix) ==
    /\ Len(suffix) <= Len(str)
    /\ SubSeq(str, Len(str) - Len(suffix) + 1, Len(str)) = suffix

\* str.removesuffix(suffix)
removesuffix(str, suffix) ==
    IF endswith(str, suffix)
    THEN SubSeq(str, 1, Len(str) - Len(suffix))
    ELSE str

\* str.rsplit('_', 1)
rsplit(str) ==
    LET p == RFind(str, "_", Len(str))
    IN IF p = 0 THEN <<str>>
       ELSE <<SubSeq(str, 1, p - 1), SubSeq(str, p + 1, Len(str))>>

s_count_breakdown == splitext(sCountCsv)
s_weight_breakdown == splitext(sWeightCsv)

\* Lines 25-57: the table and the two names the importer derives from the
\* name of a file; skipped when the name matches neither pattern
import_file(file_name) ==
    LET base_name == splitext(file_name)
    IN IF ~endswith(base_name, s_count_breakdown)
          /\ ~endswith(base_name, s_weight_breakdown)
       THEN [skipped |-> TRUE, table_name |-> None, index_name |-> <<>>,
             country |-> <<>>]
       ELSE LET count == endswith(base_name, s_count_breakdown)
                full_name_from_file ==
                    IF count THEN removesuffix(base_name, s_count_breakdown)
                    ELSE removesuffix(base_name, s_weight_breakdown)
                parts == rsplit(full_name_from_file)
            IN [skipped |-> FALSE,
                table_name |-> IF count THEN "index_count_breakdown"
                               ELSE "index_weight_breakdown",
                index_name |-> IF Len(parts) = 2 THEN parts[1]
                               ELSE full_name_from_file,
                country |-> IF Len(parts) = 2 THEN parts[2]
                            ELSE <<"U","n","k","n","o","w","n">>]

\* The words display names are made of, and the longest phrase considered
DisplayWords == {<<"A", "B">>, <<"C", "D">>}
MaxWords == 2
Phrases == {Join(ws, <<" ">>) : ws \in SeqsUpTo(DisplayWords, MaxWords) \ {<<>>}}

\* '<Index> (<Country>)'
display_name(d) == d.index \o <<" ", "(">> \o d.country \o <<")">>

\* src/eodhd_index_test.py lines 261-267: the name of the file of a breakdown
report_file(d) ==
    clean_name(display_name(d))
    \o (IF d.breakdown = "count" THEN sCountCsv ELSE sWeightCsv)

InitImport ==
    /\ AsConfigured
    /\ NoRule
    /\ entry = "import"
    /\ pc = "import"
    /\ constituents_df = NoneDf
    /\ enriched_df = NoneDf
    /\ display \in [index : Phrases, country : Phrases,
                    breakdown : {"count", "weight"}]
    /\ imported = None
    /\ InitBatch
    /\ NoUpdate
    /\ NoFetch

\* The reporter names the file of the breakdown and the importer takes the
\* name apart
ImportReport ==
    /\ pc = "import"
    /\ imported' = import_file(report_file(display))
    /\ pc' = "done"
    /\ UNCHANGED <<entry, k, hist, eodhd_vars, analysis_result, famous_vars,
                   config_vars, rule_vars, db_vars, closing_vars, display>>

NextImport == ImportReport

SpecImport == InitImport /\ [][NextImport]_vars

\* C25: the file name the reporter derives from '<Index> (<Country>)' is
\* split by the importer into the cleaned index part and the cleaned country
\* part, for one-word and multi-word parts alike, and the rows go to the
\* table matching the suffix.
C25_FileNameRoundTrip ==
    entry = "import" /\ pc = "done" =>
        /\ ~imported.skipped
        /\ imported.index_name = Replace(display.index, " ", <<"_">>)
        /\ imported.country = Replace(display.country, " ", <<"_">>)
        /\ imported.table_name = IF display.breakdown = "count"
                                 THEN "index_count_breakdown"
                                 ELSE "index_weight_breakdown"

-----------------------------------------------------------------------------
(* src/data_Fetching_codes/fetch_all_index_closing_prices.py *)

\* The names an index dictionary is made of, and the largest dictionary
IndexNames == {"MSCI World", "S&P Asia 50", "FTSE 100 (UK)"}
MaxIndices == 3

\* The dictionaries: their names in insertion order, no name twice
TickerDicts ==
    {q \in SeqsUpTo(IndexNames, MaxIndices) :
        \A a, b \in DOMAIN q : a # b => q[a] # q[b]}

InitClosing ==
    /\ AsConfigured
    /\ NoRule
    /\ entry = "closing"
    /\ pc = "fetch_loop"
    /\ constituents_df = NoneDf
    /\ enriched_df = NoneDf
    /\ tickers_dict \in TickerDicts
    /\ fetch_i = 1
    /\ successful_dataframes = <<>>
    /\ failed_indices = <<>>
    /\ fetch_sleeps = 0
    /\ saved = {}
    /\ InitBatch
    /\ NoUpdate
    /\ NoReport

\* Lines 109-128: the history has data; its closing prices are collected
\* and the delay follows
FetchCloses ==
    /\ pc = "fetch_loop"
    /\ fetch_i <= Len(tickers_dict)
    /\ successful_dataframes' =
          Append(successful_dataframes, tickers_dict[fetch_i])
    /\ fetch_sleeps' = fetch_sleeps + 1
    /\ fetch_i' = fetch_i + 1
    /\ UNCHANGED <<entry, pc, k, hist, eodhd_vars, analysis_result,
                   famous_vars, config_vars, rule_vars, db_vars, import_vars,
                   tickers_dict, failed_indices, saved>>

\* The fetch raises with the try around the loop instead of inside it: the
\* name is recorded and the loop is left
FetchFailsEndsLoop ==
    /\ pc = "fetch_loop"
    /\ fetch_i <= Len(tickers_dict)
    /\ failed_indices' = Append(failed_indices, tickers_dict[fetch_i])
    /\ fetch_i' = Len(tickers_dict) + 1
    /\ UNCHANGED <<entry, pc, k, hist, eodhd_vars, analysis_result,
                   famous_vars, config_vars, rule_vars, db_vars, import_vars,
                   tickers_dict, successful_dataframes, fetch_sleeps, saved>>

\* Lines 111-114, 130-132: the history is empty (ValueError raised at line
\* 114) or the fetch raises; the name goes to the failed list
FetchFails ==
    /\ pc = "fetch_loop"
    /\ fetch_i <= Len(tickers_dict)
    /\ failed_indices' = Append(failed_indices, tickers_dict[fetch_i])
    /\ fetch_i' = fetch_i + 1
    /\ UNCHANGED <<entry, pc, k, hist, eodhd_vars, analysis_result,
                   famous_vars, config_vars, rule_vars, db_vars, import_vars,
                   tickers_dict, successful_dataframes, fetch_sleeps, saved>>

\* Lines 134-164: the master file when a series was collected, the log file
\* when a name failed
SaveCloses ==
    /\ pc = "fetch_loop"
    /\ fetch_i > Len(tickers_dict)
    /\ saved' = (IF successful_dataframes # <<>> THEN {"OUTPUT_CSV"} ELSE {})
                \cup (IF failed_indices # <<>> THEN {"FAILED_LOG_FILE"}
                      ELSE {})
    /\ pc' = "done"
    /\ UNCHANGED <<entry, k, hist, eodhd_vars, analysis_result, famous_vars,
                   config_vars, rule_vars, db_vars, import_vars, tickers_dict,
                   fetch_i, successful_dataframes, failed_indices,
                   fetch_sleeps>>

NextClosing ==
    \/ FetchCloses
    \/ FetchFails
    \/ SaveCloses

SpecClosing == InitClosing /\ [][NextClosing]_vars

Range(q) == {q[j] : j \in DOMAIN q}

\* C26: in fetch_index_data every index visited so far is recorded exactly
\* once, in the successful series or in the failed list and never in both;
\* a failure does not end the loop, so that when the function is over every
\* index of the dictionary is recorded and successes + failures = n.
C26_FetchPartition ==
    entry = "closing" =>
        /\ Range(successful_dataframes) \cap Range(failed_indices) = {}
        /\ Range(successful_dataframes) \cup Range(failed_indices)
              = {tickers_dict[j] : j \in 1..(fetch_i - 1)}
        /\ Len(successful_dataframes) + Len(failed_indices) = fetch_i - 1
        /\ pc = "done" =>
              /\ Range(successful_dataframes) \cup Range(failed_indices)
                    = Range(tickers_dict)
              /\ Len(successful_dataframes) + Len(failed_indices)
                    = Len(tickers_dict)

\* The first index failed, a later one was fetched, and the function is over
C26_Witness ==
    /\ entry = "closing"
    /\ pc = "done"
    /\ Len(tickers_dict) = MaxIndices
    /\ failed_indices # <<>>
    /\ failed_indices[1] = tickers_dict[1]
    /\ tickers_dict[Len(tickers_dict)] \in Range(successful_dataframes)

====
